---------------------------- MODULE Spec2Model ----------------------------
(***************************************************************************)
(* Model of redis-pubsub-exporter: the RedisPubSubCollector (Collect,      *)
(* scrape, IsRedisUp, infoSection, parseFloat), ParseClientList and the    *)
(* configuration the collector is built from.                              *)
(*                                                                         *)
(* Go strings are sequences of one-character strings, so that splitting,   *)
(* trimming, searching and lower-casing are computed as the code computes  *)
(* them.  Metric names and log messages, which the code only passes on,    *)
(* are plain strings.                                                      *)
(***************************************************************************)
EXTENDS Integers, Sequences, FiniteSets, TLC

(***************************************************************************)
(* Bounds of the model.                                                    *)
(***************************************************************************)
\* Scrape requests over one run of the process (caps scrapeErrors): with
\* concurrent scrapers, with one scraper over every configuration, and with
\* concurrent scrapers under fairness.
MaxCollects == 3
MaxDataCollects == 2
MaxLiveCollects == 2
MaxHashCollects == 2
\* the fields of one line of a client listing, and the lines of a listing
\* built from the sample lines
MaxTokens == 3
MaxLines == 3
\* the fields of one hash metric definition, and the definitions of a
\* HASH_METRICS string built from the sample definitions
MaxPairs == 4
MaxSegments == 3

(***************************************************************************)
(* strings / strconv, as far as the program uses them.                     *)
(***************************************************************************)
\* unicode.IsSpace on the characters the inputs are drawn from
IsSpace(c) == c \in {" ", "\n", "\t", "\r"}

RECURSIVE TrimLeft(_)
TrimLeft(s) == IF s # <<>> /\ IsSpace(Head(s)) THEN TrimLeft(Tail(s)) ELSE s

RECURSIVE TrimRight(_)
TrimRight(s) ==
    IF s # <<>> /\ IsSpace(s[Len(s)]) THEN TrimRight(SubSeq(s, 1, Len(s) - 1)) ELSE s

\* strings.TrimSpace
TrimSpace(s) == TrimRight(TrimLeft(s))

\* strings.IndexByte: 0-based index of the first c in s, -1 when there is none
IndexByte(s, c) ==
    IF \E i \in 1..Len(s) : s[i] = c
    THEN (CHOOSE i \in 1..Len(s) : s[i] = c /\ \A j \in 1..(i - 1) : s[j] # c) - 1
    ELSE -1

\* strings.Split(s, sep) for a one-character separator
RECURSIVE Split(_, _)
Split(s, sep) ==
    LET i == IndexByte(s, sep)
    IN  IF i < 0 THEN <<s>>
        ELSE <<SubSeq(s, 1, i)>> \o Split(SubSeq(s, i + 2, Len(s)), sep)

UpperChars == <<"A", "B", "C", "D", "E", "F", "G", "H", "I", "J", "K", "L", "M",
                "N", "O", "P", "Q", "R", "S", "T", "U", "V", "W", "X", "Y", "Z">>
LowerChars == <<"a", "b", "c", "d", "e", "f", "g", "h", "i", "j", "k", "l", "m",
                "n", "o", "p", "q", "r", "s", "t", "u", "v", "w", "x", "y", "z">>

\* strings.ToLower
ToLower(s) ==
    [i \in 1..Len(s) |->
        IF \E k \in 1..26 : UpperChars[k] = s[i]
        THEN LowerChars[CHOOSE k \in 1..26 : UpperChars[k] = s[i]]
        ELSE s[i]]

DigitChars == <<"0", "1", "2", "3", "4", "5", "6", "7", "8", "9">>
IsDigit(c) == \E d \in 1..10 : DigitChars[d] = c
DigitVal(c) == (CHOOSE d \in 1..10 : DigitChars[d] = c) - 1

RECURSIVE DecVal(_)
DecVal(s) ==
    IF s = <<>> THEN 0
    ELSE 10 * DecVal(SubSeq(s, 1, Len(s) - 1)) + DigitVal(s[Len(s)])

\* strconv.Atoi: an optional sign and at least one decimal digit, anything
\* else is an error (the inputs are short, the int range is never left).
Atoi(s) ==
    LET body == IF s # <<>> /\ s[1] \in {"+", "-"} THEN Tail(s) ELSE s
    IN  IF body = <<>> \/ \E i \in 1..Len(body) : ~IsDigit(body[i])
        THEN [ok |-> FALSE, val |-> 0]
        ELSE [ok |-> TRUE,
              val |-> IF s[1] = "-" THEN 0 - DecVal(body) ELSE DecVal(body)]

\* parseFloat: TrimSpace, strconv.ParseFloat, 0 on a parse error.  The raw
\* values are drawn from signed decimal integers and non-numbers.
parseFloat(s) ==
    LET r == Atoi(TrimSpace(s))
    IN  IF r.ok THEN r.val ELSE 0

(***************************************************************************)
(* Go maps with string keys: functions on a finite set of keys.            *)
(***************************************************************************)
EmptyMap == [k \in {} |-> <<>>]
MapPut(m, key, v) == [k \in DOMAIN m \cup {key} |-> IF k = key THEN v ELSE m[k]]
\* m[key] of a map[string]string: the zero value "" for a missing key
MapGet(m, key) == IF key \in DOMAIN m THEN m[key] ELSE <<>>

(***************************************************************************)
(* client_parser.go                                                        *)
(***************************************************************************)
K_sub  == <<"s", "u", "b">>
K_psub == <<"p", "s", "u", "b">>
K_name == <<"n", "a", "m", "e">>
K_addr == <<"a", "d", "d", "r">>
S_unnamed == <<"u", "n", "n", "a", "m", "e", "d">>
S_unknown == <<"u", "n", "k", "n", "o", "w", "n">>

parseIntField(fields, key) ==
    IF key \notin DOMAIN fields THEN 0
    ELSE LET r == Atoi(fields[key]) IN IF r.ok THEN r.val ELSE 0

EqIndexLast(pair) ==
    LET I == {i \in 1..Len(pair) : pair[i] = "="}
    IN  IF I = {} THEN -1 ELSE (CHOOSE i \in I : \A j \in I : j <= i) - 1

\* where a token is cut into key and value
EqIndex(pair) == IndexByte(pair, "=")

\* the loop over strings.Split(line, " ") that fills the fields map
RECURSIVE ParseFields(_, _)
ParseFields(pairs, fields) ==
    IF pairs = <<>> THEN fields
    ELSE LET pair == Head(pairs)
             idx  == EqIndex(pair)
         IN  ParseFields(Tail(pairs),
                 IF idx < 0 THEN fields
                 ELSE MapPut(fields, SubSeq(pair, 1, idx),
                             SubSeq(pair, idx + 2, Len(pair))))

NoSubscriptionsNever(sub, psub) == FALSE

OrDefaultKeepsEmpty(v, default) == v

\* name and addr: the default for the empty string
OrDefault(v, default) == IF v = <<>> THEN default ELSE v

\* the test that drops a client without subscriptions
NoSubscriptions(sub, psub) == sub = 0 /\ psub = 0

\* one iteration of the loop over lines: the clients it appends (none or one)
ParseClientLine(rawLine) ==
    LET line == TrimSpace(rawLine)
        fields == ParseFields(Split(line, " "), EmptyMap)
        sub  == parseIntField(fields, K_sub)
        psub == parseIntField(fields, K_psub)
        name == MapGet(fields, K_name)
        addr == MapGet(fields, K_addr)
    IN  IF line = <<>> THEN <<>>
        ELSE IF NoSubscriptions(sub, psub) THEN <<>>
        ELSE << [Addr |-> OrDefault(addr, S_unknown),
                 Name |-> OrDefault(name, S_unnamed),
                 Sub  |-> sub,
                 PSub |-> psub] >>

RECURSIVE ParseClientLinesStopsAtSkipped(_)
ParseClientLinesStopsAtSkipped(lines) ==
    IF lines = <<>> THEN <<>>
    ELSE LET c == ParseClientLine(Head(lines))
         IN  IF c = <<>> THEN <<>>
             ELSE c \o ParseClientLinesStopsAtSkipped(Tail(lines))

\* the loop over the lines, appending in line order
RECURSIVE ParseClientLines(_)
ParseClientLines(lines) ==
    IF lines = <<>> THEN <<>>
    ELSE ParseClientLine(Head(lines)) \o ParseClientLines(Tail(lines))

ParseClientList(raw) == ParseClientLines(Split(TrimSpace(raw), "\n"))

(***************************************************************************)
(* Client listings as Redis writes them: one line per client, the fields  *)
(* of a line separated by one space, each field key=value.  A listing is   *)
(* kept as its lines, a line as its tokens, so that what a line says is    *)
(* known apart from the parser.                                            *)
(***************************************************************************)
Field(k, v) == [key |-> k, eq |-> TRUE, val |-> v]
Word(w)     == [key |-> w, eq |-> FALSE, val |-> <<>>]

V_n   == <<"n">>
V_h   == <<"h">>
V_app == <<"a", "p", "p", "=", "v", "2">>

ClientTokens ==
    { Field(K_sub, <<"2">>), Field(K_sub, <<"0">>), Field(K_sub, <<"x">>),
      Field(K_sub, <<"2", "=", "1">>),
      Field(K_psub, <<"1", "0">>), Field(K_psub, <<"0">>),
      Field(K_name, V_n), Field(K_name, <<>>), Field(K_name, V_app),
      Field(K_addr, V_h), Field(K_addr, <<>>),
      Word(<<"j">>), Word(<<>>) }

\* the number a field value of the tokens above writes, 0 when it writes none
NumberOf(v) ==
    CASE v = <<"2">> -> 2
      [] v = <<"1", "0">> -> 10
      [] OTHER -> 0

ClientLines == UNION { [1..n -> ClientTokens] : n \in 0..MaxTokens }

L_full  == << Field(K_addr, V_h), Field(K_name, V_n), Field(K_sub, <<"2">>) >>
L_psub  == << Field(K_name, V_app), Field(K_psub, <<"1", "0">>) >>
L_zero  == << Field(K_name, V_n), Field(K_sub, <<"0">>), Field(K_psub, <<"0">>) >>
L_junk  == << Word(<<"j">>), Word(<<"j">>) >>
L_blank == << >>
L_pad   == << Word(<<>>), Field(K_sub, <<"2">>), Word(<<>>) >>
LineSample == {L_full, L_psub, L_zero, L_junk, L_blank, L_pad}

\* every listing of one line, and the listings of several sample lines
ClientListings ==
    { <<l>> : l \in ClientLines }
    \cup UNION { [1..n -> LineSample] : n \in 2..MaxLines }

RECURSIVE Join(_, _)
Join(parts, sep) ==
    IF parts = <<>> THEN <<>>
    ELSE IF Len(parts) = 1 THEN parts[1]
    ELSE parts[1] \o sep \o Join(Tail(parts), sep)

RenderToken(t) == IF t.eq THEN t.key \o <<"=">> \o t.val ELSE t.key
RenderLine(line) == Join([i \in 1..Len(line) |-> RenderToken(line[i])], <<" ">>)
RenderClientList(listing) ==
    Join([i \in 1..Len(listing) |-> RenderLine(listing[i])], <<"\n">>)

\* what a line says of a key: the value of its last key=value token
LastOf(line, key) ==
    LET I == {i \in 1..Len(line) : line[i].eq /\ line[i].key = key}
    IN  IF I = {} THEN [has |-> FALSE, val |-> <<>>]
        ELSE [has |-> TRUE, val |-> line[CHOOSE i \in I : \A j \in I : j <= i].val]

CountOf(line, key) == NumberOf(LastOf(line, key).val)

Subscribed(line) == CountOf(line, K_sub) # 0 \/ CountOf(line, K_psub) # 0

SubscribedLines(listing) == SelectSeq(listing, Subscribed)

(***************************************************************************)
(* The store as the collector sees it: what each query of a scrape answers *)
(* when it does not fail.  Channel names and patterns are short strings    *)
(* over letters, "." and "*".                                              *)
(***************************************************************************)
K_clients == <<"c", "l", "i", "e", "n", "t", "s">>
K_memory  == <<"m", "e", "m", "o", "r", "y">>
K_connected_clients ==
    <<"c", "o", "n", "n", "e", "c", "t", "e", "d", "_", "c", "l", "i", "e", "n", "t", "s">>
K_used_memory == <<"u", "s", "e", "d", "_", "m", "e", "m", "o", "r", "y">>

\* section names as go-redis versions spell them
K_Clients == <<"C", "l", "i", "e", "n", "t", "s">>
K_Memory  == <<"M", "e", "m", "o", "r", "y">>

Ch_ax == <<"a", ".", "x">>
Ch_ay == <<"a", ".", "y", ".", "z">>
Ch_bx == <<"b", ".", "x">>
Ch_c  == <<"c">>
ChannelNames == {Ch_ax, Ch_ay, Ch_bx, Ch_c}

Pat_a   == <<"a", ".", "*">>
Pat_b   == <<"b", ".", "*">>
Pat_z   == <<"z", ".", "*">>
Pat_all == <<"*">>

\* Redis glob matching (stringmatchlen) for patterns of literals and "*"
RECURSIVE GlobMatch(_, _)
GlobMatch(p, s) ==
    IF p = <<>> THEN s = <<>>
    ELSE IF Head(p) = "*"
         THEN GlobMatch(Tail(p), s) \/ (s # <<>> /\ GlobMatch(p, Tail(s)))
         ELSE s # <<>> /\ Head(s) = Head(p) /\ GlobMatch(Tail(p), Tail(s))

\* SelectSeq with a two-argument test
RECURSIVE Matching(_, _)
Matching(chs, p) ==
    IF chs = <<>> THEN <<>>
    ELSE (IF GlobMatch(p, Head(chs)) THEN <<Head(chs)>> ELSE <<>>)
         \o Matching(Tail(chs), p)

\* CLIENT LIST replies
Cl_two ==
    <<"a", "d", "d", "r", "=", "h", " ", "n", "a", "m", "e", "=", "n", " ",
      "s", "u", "b", "=", "2", " ", "p", "s", "u", "b", "=", "1", "\n",
      "a", "d", "d", "r", "=", "g", " ", "s", "u", "b", "=", "0", " ",
      "p", "s", "u", "b", "=", "0", "\n">>
Cl_one == <<"n", "a", "m", "e", "=", " ", "p", "s", "u", "b", "=", "3">>
Cl_none == <<>>
ClientListReplies == {Cl_two, Cl_one, Cl_none}

\* ParseClientList on the replies of the store, computed once
ParsedClientList == [raw \in ClientListReplies |-> ParseClientList(raw)]

\* hash metric definitions, and the store's reply to HGETALL for each key:
\* two numeric fields, no field, and one field that is not a number
HM_a == [RedisKey |-> "app:a", MetricName |-> "hash_a", FieldLabel |-> "user"]
HM_b == [RedisKey |-> "app:b", MetricName |-> "hash_b", FieldLabel |-> "item"]
HM_c == [RedisKey |-> "app:c", MetricName |-> "hash_c", FieldLabel |-> "user"]
HashReplies ==
    [k \in {"app:a", "app:b", "app:c"} |->
        CASE k = "app:a" -> ("user-1" :> <<"5">>) @@ ("user-2" :> <<"3">>)
          [] k = "app:b" -> [f \in {} |-> <<>>]
          [] k = "app:c" -> ("user-1" :> <<"x">>) @@ ("user-2" :> <<"4">>)]
HashMetricLists ==
    {<<HM_a>>, <<HM_b, HM_a>>, <<HM_a, HM_c>>, <<HM_c, HM_b, HM_a>>}

InfoOf(section, field, raw) == section :> (field :> raw)

BaseStore ==
    [info_clients |-> InfoOf(K_clients, K_connected_clients, <<"7">>),
     info_memory  |-> InfoOf(K_memory, K_used_memory, <<"9">>),
     channels     |-> <<Ch_ax, Ch_c>>,
     numsub       |-> [c \in ChannelNames |-> IF c = Ch_c THEN 0 ELSE 1],
     numpat       |-> 1,
     client_list  |-> Cl_one,
     hashes       |-> HashReplies]

ChannelReplies ==
    {<<>>, <<Ch_c>>, <<Ch_ax>>, <<Ch_ax, Ch_ay>>, <<Ch_bx, Ch_ax>>,
     <<Ch_ax, Ch_ay, Ch_bx>>, <<Ch_c, Ch_bx, Ch_ay>>}

NumSubReplies ==
    {[c \in ChannelNames |-> 0], [c \in ChannelNames |-> 2],
     [c \in ChannelNames |-> IF c \in {Ch_ax, Ch_bx} THEN 0 ELSE 1]}

InfoClientsReplies ==
    {EmptyMap,
     InfoOf(K_Clients, K_connected_clients, <<" ", "4">>),
     InfoOf(K_clients, K_used_memory, <<"1">>),
     InfoOf(K_clients, K_connected_clients, <<"x">>),
     InfoOf(K_clients, K_connected_clients, <<"1">>)
         @@ InfoOf(K_Clients, K_connected_clients, <<"2">>)}

InfoMemoryReplies ==
    {EmptyMap,
     InfoOf(K_Memory, K_used_memory, <<"1", "2">>),
     InfoOf(K_memory, K_connected_clients, <<"1">>)}

\* stores that differ from BaseStore in the replies about channels
ChannelStores == {[BaseStore EXCEPT !.channels = chs] : chs \in ChannelReplies}

\* stores that differ from BaseStore in one other reply
OtherStores ==
    {[BaseStore EXCEPT !.channels = <<Ch_c, Ch_bx, Ch_ay>>, !.numsub = ns] :
        ns \in NumSubReplies}
    \cup {[BaseStore EXCEPT !.info_clients = m] : m \in InfoClientsReplies}
    \cup {[BaseStore EXCEPT !.info_memory = m] : m \in InfoMemoryReplies}
    \cup {[BaseStore EXCEPT !.client_list = r, !.numpat = 0] : r \in ClientListReplies \ {Cl_one}}

KnownPatternLists == {<<>>, <<Pat_a>>, <<Pat_z, Pat_b>>, <<Pat_a, Pat_a>>, <<Pat_all>>}

\* values of MAX_CHANNELS / --max-channels: any int is accepted
MaxChannelsValues == {-1, 0, 1, 2, 3}

ScraperIds == {1, 2}
ProbeIds   == {1, 2}

(***************************************************************************)
(* State                                                                   *)
(***************************************************************************)
VARIABLES
    \* configuration, fixed by New
    maxChannels, knownPatterns, hashMetrics, redis,
    \* goroutines that call Collect and IsRedisUp in this run, and the
    \* scrape requests Prometheus sends in it
    scrapers, probes, requests,
    \* a function applied on its own: its argument and what it returned
    fnArg, fnRet,
    \* RedisPubSubCollector fields
    mu, redisUp, scrapeErrors,
    \* one Collect call per scraper: position, ctx, locals, what it wrote
    pc, ctxDone, err, up, channels, patternSet, out, queries, logs,
    \* one IsRedisUp call per probe
    ppc, ret,
    \* the process died of an unrecovered panic
    crashed,
    \* history: Collect calls so far, each call's number, the calls in the
    \* order they wrote to the sink, the last Collect that returned, and
    \* c.scrapeErrors as each call found it
    calls, inv, sinkOrder, lastDone, before

cfgVars  == <<maxChannels, knownPatterns, hashMetrics, redis, scrapers, probes, requests,
               fnArg, fnRet>>
collVars == <<mu, redisUp, scrapeErrors>>
locVars  == <<ctxDone, err, up, channels, patternSet, out, queries, logs>>
prbVars  == <<ppc, ret>>
histVars == <<calls, inv, sinkOrder, lastDone, before>>
vars == <<cfgVars, collVars, pc, locVars, prbVars, crashed, histVars>>

\* error values: nil, or the query that failed and why
Nil == <<>>

NoLocals(f) == [s \in ScraperIds |-> f]

NotCalled == [called |-> FALSE]

\* no function is applied on its own in this run
NoCall == fnArg = <<>> /\ fnRet = NotCalled

\* the collector as New returns it, before any goroutine runs
InitState ==
    /\ mu = [w |-> 0, pending |-> FALSE, readerCount |-> 0, readerWait |-> 0]
    /\ redisUp = FALSE
    /\ scrapeErrors = 0
    /\ pc = NoLocals("idle")
    /\ ctxDone = NoLocals(FALSE)
    /\ err = NoLocals(Nil)
    /\ up = NoLocals(0)
    /\ channels = NoLocals(<<>>)
    /\ patternSet = NoLocals({})
    /\ out = NoLocals(<<>>)
    /\ queries = NoLocals(<<>>)
    /\ logs = NoLocals(<<>>)
    /\ ppc = [p \in ProbeIds |-> "idle"]
    /\ ret = [p \in ProbeIds |-> <<>>]
    /\ crashed = FALSE
    /\ calls = 0
    /\ inv = NoLocals(0)
    /\ sinkOrder = <<>>
    /\ lastDone = [n |-> 0, up |-> FALSE]
    /\ before = NoLocals(0)

\* Concurrent scrapes and health checks against one store.
Init ==
    /\ maxChannels \in {-1, 1}
    /\ knownPatterns = <<>>
    /\ hashMetrics = <<>>
    /\ redis = BaseStore
    /\ scrapers = ScraperIds
    /\ probes = ProbeIds
    /\ requests = MaxCollects
    /\ NoCall
    /\ InitState

\* Concurrent scrapes and health checks, for the properties of progress.
InitLive ==
    /\ maxChannels \in {-1, 1}
    /\ knownPatterns = <<>>
    /\ hashMetrics = <<>>
    /\ redis = BaseStore
    /\ scrapers = ScraperIds
    /\ probes = ProbeIds
    /\ requests = MaxLiveCollects
    /\ NoCall
    /\ InitState

\* One scraper and one prober, with hash metrics configured.
InitHash ==
    /\ maxChannels = 1
    /\ knownPatterns = <<>>
    /\ hashMetrics \in HashMetricLists
    /\ redis = BaseStore
    /\ scrapers = {1}
    /\ probes = {1}
    /\ requests = MaxHashCollects
    /\ NoCall
    /\ InitState

\* One scraper and one prober, over every configuration and store.
InitData ==
    /\ \/ /\ maxChannels \in MaxChannelsValues
          /\ knownPatterns = <<Pat_z>>
          /\ redis \in ChannelStores
       \/ /\ maxChannels = 2
          /\ knownPatterns = <<Pat_z>>
          /\ redis \in OtherStores
       \/ /\ maxChannels = 2
          /\ knownPatterns \in KnownPatternLists
          /\ redis \in ChannelStores
    /\ hashMetrics = <<>>
    /\ scrapers = {1}
    /\ probes = {1}
    /\ requests = MaxDataCollects
    /\ NoCall
    /\ InitState

(***************************************************************************)
(* sync.RWMutex, as Collect and IsRedisUp use it.  mu.w is the goroutine   *)
(* holding the writers' mutex (0: none), mu.pending says a writer has      *)
(* announced itself (readerCount < 0 in the Go source), mu.readerCount     *)
(* counts the readers that called RLock and not yet RUnlock, mu.readerWait *)
(* the readers the announced writer still waits for.                       *)
(***************************************************************************)
\* MuLock that does not wait for the writer holding the mutex
MuLockNoExclusion(s) ==
    mu' = [mu EXCEPT !.w = s, !.pending = TRUE, !.readerWait = mu.readerCount]

\* c.mu.Lock(): take the writers' mutex, announce, wait for active readers
MuLock(s) ==
    /\ mu.w = 0
    /\ mu' = [mu EXCEPT !.w = s, !.pending = TRUE, !.readerWait = mu.readerCount]

\* MuUnlock that leaves the readers blocked behind the writer asleep
MuUnlockWakesNobody ==
    /\ mu' = [mu EXCEPT !.w = 0, !.pending = FALSE]
    /\ ppc' = ppc

\* c.mu.Unlock(): readers blocked behind the writer all proceed
MuUnlock ==
    /\ mu' = [mu EXCEPT !.w = 0, !.pending = FALSE]
    /\ ppc' = [p \in ProbeIds |-> IF ppc[p] = "rwait" THEN "rheld" ELSE ppc[p]]

\* MuRLock that does not wait for the announced writer
MuRLockNoWait(p) ==
    /\ mu' = [mu EXCEPT !.readerCount = @ + 1]
    /\ ppc' = [ppc EXCEPT ![p] = "rheld"]

\* c.mu.RLock(): blocked while a writer is announced
MuRLock(p) ==
    /\ mu' = [mu EXCEPT !.readerCount = @ + 1]
    /\ ppc' = [ppc EXCEPT ![p] = IF mu.pending THEN "rwait" ELSE "rheld"]

\* c.mu.RUnlock(): the last reader an announced writer waits for wakes it
MuRUnlock ==
    mu' = [mu EXCEPT !.readerCount = @ - 1,
                     !.readerWait = IF mu.pending THEN @ - 1 ELSE @]

(***************************************************************************)
(* Collect                                                                 *)
(***************************************************************************)
Sample(name, labels, value) == <<name, labels, value>>

\* ch <- samples, by the Collect call of scraper s
Emit(s, samples) ==
    /\ out' = [out EXCEPT ![s] = @ \o samples]
    /\ sinkOrder' = IF samples = <<>>
                       \/ (sinkOrder # <<>> /\ sinkOrder[Len(sinkOrder)] = inv[s])
                    THEN sinkOrder
                    ELSE Append(sinkOrder, inv[s])

\* a store query: it answers, or fails when the store or the connection
\* does, and always fails once the context of the scrape is done
QueryOutcomes(s) ==
    IF ctxDone[s] THEN {"context deadline exceeded"} ELSE {"ok", "redis error"}


Issue(s, q) == queries' = [queries EXCEPT ![s] = Append(@, q)]

\* return from scrape, with error e or Nil
ScrapeReturns(s, e) ==
    /\ pc' = [pc EXCEPT ![s] = "scraped"]
    /\ err' = [err EXCEPT ![s] = e]

\* Prometheus calls Collect
CollectCall(s) ==
    /\ pc[s] = "idle"
    /\ calls < requests
    /\ pc' = [pc EXCEPT ![s] = "lock"]
    /\ calls' = calls + 1
    /\ inv' = [inv EXCEPT ![s] = calls + 1]
    /\ UNCHANGED <<cfgVars, collVars, locVars, prbVars, crashed, sinkOrder, lastDone,
                   before>>

\* c.mu.Lock()
CollectLock(s) ==
    /\ pc[s] = "lock"
    /\ MuLock(s)
    /\ pc' = [pc EXCEPT ![s] = IF mu.readerCount = 0 THEN "begin" ELSE "lockwait"]
    /\ UNCHANGED <<cfgVars, redisUp, scrapeErrors, locVars, prbVars, crashed, histVars>>

\* c.mu.Lock() returns once the readers it waited for are gone
CollectLockAcquired(s) ==
    /\ pc[s] = "lockwait"
    /\ mu.w = s
    /\ mu.readerWait = 0
    /\ pc' = [pc EXCEPT ![s] = "begin"]
    /\ UNCHANGED <<cfgVars, collVars, locVars, prbVars, crashed, histVars>>

\* start := time.Now(); ctx with the 10 s timeout; up := 0.0
CollectBegin(s) ==
    /\ pc[s] = "begin"
    /\ pc' = [pc EXCEPT ![s] = "ping"]
    /\ ctxDone' = [ctxDone EXCEPT ![s] = FALSE]
    /\ up' = [up EXCEPT ![s] = 0]
    /\ before' = [before EXCEPT ![s] = scrapeErrors]
    /\ UNCHANGED <<cfgVars, collVars, err, channels, patternSet, out, queries, logs,
                   prbVars, crashed, calls, inv, sinkOrder, lastDone>>

QueryPcs == {"ping", "info_clients", "info_memory", "channels", "numsub", "numpat",
             "client_list", "patterns"}

\* the 10 s of the scrape's context run out
CtxTimeout(s) ==
    /\ pc[s] \in QueryPcs
    /\ ~ctxDone[s]
    /\ ctxDone' = [ctxDone EXCEPT ![s] = TRUE]
    /\ UNCHANGED <<cfgVars, collVars, pc, err, up, channels, patternSet, out, queries,
                   logs, prbVars, crashed, histVars>>

(***************************************************************************)
(* scrape                                                                  *)
(***************************************************************************)
Log(s, msg, arg) == logs' = [logs EXCEPT ![s] = Append(@, <<msg, arg>>)]

\* PingFailed without the return: the error is kept and the scrape goes on
PingFailedGoesOn(s, res) ==
    /\ pc' = [pc EXCEPT ![s] = "info_clients"]
    /\ err' = [err EXCEPT ![s] = <<"ping", res>>]

\* if err := Ping; err != nil { return err }
PingFailed(s, res) == ScrapeReturns(s, <<"ping", res>>)

\* c.client.Ping
ScrapePing(s) ==
    /\ pc[s] = "ping"
    /\ Issue(s, <<"PING", <<>>>>)
    /\ \E res \in QueryOutcomes(s) :
          IF res = "ok" THEN pc' = [pc EXCEPT ![s] = "info_clients"] /\ UNCHANGED err
          ELSE PingFailed(s, res)
    /\ UNCHANGED <<cfgVars, collVars, ctxDone, up, channels, patternSet, out, logs,
                   prbVars, crashed, histVars>>

\* infoSection that takes any section of the name, whatever its case
infoSectionAnyCase(m, key) ==
    LET hits == {k \in DOMAIN m : ToLower(k) = ToLower(key)}
    IN  IF hits = {} THEN {[nil |-> TRUE, section |-> EmptyMap]}
        ELSE {[nil |-> FALSE, section |-> m[k]] : k \in hits}

\* infoSection: the values it may return, [nil |-> TRUE] for a nil map; the
\* fallback ranges over a Go map, in any order
infoSection(m, key) ==
    IF key \in DOMAIN m THEN {[nil |-> FALSE, section |-> m[key]]}
    ELSE LET hits == {k \in DOMAIN m : ToLower(k) = ToLower(key)}
         IN  IF hits = {} THEN {[nil |-> TRUE, section |-> EmptyMap]}
             ELSE {[nil |-> FALSE, section |-> m[k]] : k \in hits}

\* the sample of one INFO reply: none when the section or the field is missing
InfoSamples(found, field, metric) ==
    IF ~found.nil /\ field \in DOMAIN found.section
    THEN <<Sample(metric, <<>>, parseFloat(found.section[field]))>>
    ELSE <<>>

\* InfoClientsFailed without the return
InfoClientsFailedGoesOn(s, res) ==
    /\ pc' = [pc EXCEPT ![s] = "info_memory"]
    /\ err' = [err EXCEPT ![s] = <<"info_clients", res>>]

\* if err != nil { return err } after InfoMap(ctx, "clients")
InfoClientsFailed(s, res) == ScrapeReturns(s, <<"info_clients", res>>)

\* c.client.InfoMap(ctx, "clients") and its sample
ScrapeInfoClients(s) ==
    /\ pc[s] = "info_clients"
    /\ Issue(s, <<"INFO", K_clients>>)
    /\ \E res \in QueryOutcomes(s) :
          IF res = "ok"
          THEN /\ \E found \in infoSection(redis.info_clients, K_clients) :
                     Emit(s, InfoSamples(found, K_connected_clients,
                                         "exporter_redis_connected_clients"))
               /\ pc' = [pc EXCEPT ![s] = "info_memory"]
               /\ UNCHANGED err
          ELSE InfoClientsFailed(s, res) /\ UNCHANGED <<out, sinkOrder>>
    /\ UNCHANGED <<cfgVars, collVars, ctxDone, up, channels, patternSet, logs,
                   prbVars, crashed, calls, inv, lastDone, before>>

\* InfoMemoryFailed without the return
InfoMemoryFailedGoesOn(s, res) ==
    /\ pc' = [pc EXCEPT ![s] = "channels"]
    /\ err' = [err EXCEPT ![s] = <<"info_memory", res>>]

\* if err != nil { return err } after InfoMap(ctx, "memory")
InfoMemoryFailed(s, res) == ScrapeReturns(s, <<"info_memory", res>>)

\* c.client.InfoMap(ctx, "memory") and its sample
ScrapeInfoMemory(s) ==
    /\ pc[s] = "info_memory"
    /\ Issue(s, <<"INFO", K_memory>>)
    /\ \E res \in QueryOutcomes(s) :
          IF res = "ok"
          THEN /\ \E found \in infoSection(redis.info_memory, K_memory) :
                     Emit(s, InfoSamples(found, K_used_memory,
                                         "exporter_redis_used_memory_bytes"))
               /\ pc' = [pc EXCEPT ![s] = "channels"]
               /\ UNCHANGED err
          ELSE InfoMemoryFailed(s, res) /\ UNCHANGED <<out, sinkOrder>>
    /\ UNCHANGED <<cfgVars, collVars, ctxDone, up, channels, patternSet, logs,
                   prbVars, crashed, calls, inv, lastDone, before>>

\* Truncate that keeps the last max channels instead of the first
TruncateKeepsLast(chs, max) ==
    IF Len(chs) > max
    THEN [warn |-> TRUE, panic |-> max < 0,
          channels |-> IF max < 0 THEN <<>>
                       ELSE SubSeq(chs, Len(chs) - max + 1, Len(chs))]
    ELSE [warn |-> FALSE, panic |-> FALSE, channels |-> chs]

\* the high cardinality guard: whether it warns, whether channels[:max]
\* panics (a negative bound), and the channels kept
Truncate(chs, max) ==
    IF Len(chs) > max
    THEN [warn |-> TRUE, panic |-> max < 0,
          channels |-> IF max < 0 THEN <<>> ELSE SubSeq(chs, 1, max)]
    ELSE [warn |-> FALSE, panic |-> FALSE, channels |-> chs]

\* c.client.PubSubChannels(ctx, "*"), the guard and channels_total
ScrapeChannels(s) ==
    /\ pc[s] = "channels"
    /\ Issue(s, <<"PUBSUB CHANNELS", Pat_all>>)
    /\ \E res \in QueryOutcomes(s) :
          IF res = "ok"
          THEN LET chs == Matching(redis.channels, Pat_all)
                   t   == Truncate(chs, maxChannels)
               IN  /\ IF t.warn
                      THEN Log(s, "channel count exceeds MAX_CHANNELS, truncating",
                               <<Len(chs), maxChannels>>)
                      ELSE UNCHANGED logs
                   /\ IF t.panic
                      THEN /\ pc' = [pc EXCEPT ![s] = "panic"]
                           /\ UNCHANGED <<channels, out, sinkOrder>>
                      ELSE /\ pc' = [pc EXCEPT ![s] = "numsub"]
                           /\ channels' = [channels EXCEPT ![s] = t.channels]
                           /\ Emit(s, <<Sample("channels_total", <<>>, Len(t.channels))>>)
                   /\ UNCHANGED err
          ELSE ScrapeReturns(s, <<"channels", res>>) /\ UNCHANGED <<channels, out, sinkOrder, logs>>
    /\ UNCHANGED <<cfgVars, collVars, ctxDone, up, patternSet,
                   prbVars, crashed, calls, inv, lastDone, before>>

Range(sq) == {sq[i] : i \in 1..Len(sq)}

\* the orders a range over a Go map with key set S may take
Orders(S) ==
    {sq \in [1..Cardinality(S) -> S] : \A i, j \in 1..Cardinality(S) : sq[i] = sq[j] => i = j}

\* NumSubSamples that counts a channel as an orphan when it has subscribers
NumSubSamplesCountsSubscribed(numsub, order) ==
    [i \in 1..Len(order) |->
        Sample("channel_subscriber_count", order[i], numsub[order[i]])]
    \o <<Sample("orphan_channels_total", <<>>,
                Cardinality({c \in DOMAIN numsub : numsub[c] # 0}))>>

\* the loop over the NUMSUB reply, in the order the range takes, and the
\* orphan_channels_total sample after it
NumSubSamples(numsub, order) ==
    [i \in 1..Len(order) |->
        Sample("channel_subscriber_count", order[i], numsub[order[i]])]
    \o <<Sample("orphan_channels_total", <<>>,
                Cardinality({c \in DOMAIN numsub : numsub[c] = 0}))>>

\* c.client.PubSubNumSub over the channels, one sample per channel of the
\* reply, and orphan_channels_total
ScrapeNumSub(s) ==
    /\ pc[s] = "numsub"
    /\ IF Len(channels[s]) > 0
       THEN /\ Issue(s, <<"PUBSUB NUMSUB", channels[s]>>)
            /\ \E res \in QueryOutcomes(s) :
                  IF res = "ok"
                  THEN LET numsub == [c \in Range(channels[s]) |-> redis.numsub[c]]
                       IN  /\ \E order \in Orders(DOMAIN numsub) :
                                 Emit(s, NumSubSamples(numsub, order))
                           /\ pc' = [pc EXCEPT ![s] = "numpat"]
                           /\ UNCHANGED err
                  ELSE ScrapeReturns(s, <<"numsub", res>>) /\ UNCHANGED <<out, sinkOrder>>
       ELSE /\ Emit(s, <<Sample("orphan_channels_total", <<>>, 0)>>)
            /\ pc' = [pc EXCEPT ![s] = "numpat"]
            /\ UNCHANGED <<err, queries>>
    /\ UNCHANGED <<cfgVars, collVars, ctxDone, up, channels, patternSet, logs,
                   prbVars, crashed, calls, inv, lastDone, before>>

\* NumPatFailed without the return
NumPatFailedGoesOn(s, res) ==
    /\ pc' = [pc EXCEPT ![s] = "client_list"]
    /\ err' = [err EXCEPT ![s] = <<"numpat", res>>]

\* if err != nil { return err } after PubSubNumPat
NumPatFailed(s, res) == ScrapeReturns(s, <<"numpat", res>>)

\* c.client.PubSubNumPat and patterns_total
ScrapeNumPat(s) ==
    /\ pc[s] = "numpat"
    /\ Issue(s, <<"PUBSUB NUMPAT", <<>>>>)
    /\ \E res \in QueryOutcomes(s) :
          IF res = "ok"
          THEN /\ Emit(s, <<Sample("patterns_total", <<>>, redis.numpat)>>)
               /\ pc' = [pc EXCEPT ![s] = "client_list"]
               /\ UNCHANGED err
          ELSE NumPatFailed(s, res) /\ UNCHANGED <<out, sinkOrder>>
    /\ UNCHANGED <<cfgVars, collVars, ctxDone, up, channels, patternSet, logs,
                   prbVars, crashed, calls, inv, lastDone, before>>

\* the per-client samples, in the order of the parsed clients
RECURSIVE ClientSamples(_)
ClientSamples(clients) ==
    IF clients = <<>> THEN <<>>
    ELSE LET cl == Head(clients)
         IN  (IF cl.Sub > 0
              THEN <<Sample("client_channel_subscriptions", <<cl.Name, cl.Addr>>, cl.Sub)>>
              ELSE <<>>)
             \o (IF cl.PSub > 0
                 THEN <<Sample("client_pattern_subscriptions", <<cl.Name, cl.Addr>>, cl.PSub)>>
                 ELSE <<>>)
             \o ClientSamples(Tail(clients))

\* PrefixPattern that cuts the name at its last "."
PrefixPatternLastDot(channelName) ==
    LET I == {i \in 1..Len(channelName) : channelName[i] = "."}
    IN  IF I # {}
        THEN {SubSeq(channelName, 1, (CHOOSE i \in I : \A j \in I : j <= i) - 1)
                  \o <<".", "*">>}
        ELSE {}

\* the prefix pattern of a channel name: the set is empty without a "."
PrefixPattern(channelName) ==
    LET idx == IndexByte(channelName, ".")
    IN  IF idx >= 0 THEN {SubSeq(channelName, 1, idx) \o <<".", "*">>} ELSE {}

\* DiscoverPatterns over every channel the store returned, the dropped ones too
DiscoverPatternsBeforeTruncation(known, chs) ==
    Range(known) \cup UNION {PrefixPattern(redis.channels[i]) : i \in 1..Len(redis.channels)}

\* patternSet: the known patterns and the prefixes of the channels
DiscoverPatterns(known, chs) ==
    Range(known) \cup UNION {PrefixPattern(chs[i]) : i \in 1..Len(chs)}

\* c.client.ClientList, ParseClientList, the client samples, and patternSet
ScrapeClientList(s) ==
    /\ pc[s] = "client_list"
    /\ Issue(s, <<"CLIENT LIST", <<>>>>)
    /\ \E res \in QueryOutcomes(s) :
          IF res = "ok"
          THEN LET pubsubClients == ParsedClientList[redis.client_list]
               IN  /\ Emit(s, <<Sample("clients_total", <<>>, Len(pubsubClients))>>
                              \o ClientSamples(pubsubClients))
                   /\ patternSet' = [patternSet EXCEPT
                                        ![s] = DiscoverPatterns(knownPatterns, channels[s])]
                   /\ pc' = [pc EXCEPT ![s] = "patterns"]
                   /\ UNCHANGED err
          ELSE ScrapeReturns(s, <<"client_list", res>>) /\ UNCHANGED <<out, sinkOrder, patternSet>>
    /\ UNCHANGED <<cfgVars, collVars, ctxDone, up, channels, logs,
                   prbVars, crashed, calls, inv, lastDone, before>>

\* PatternQueryFailed that returns the error instead of continuing
PatternQueryFailedAborts(s, pattern, res) ==
    /\ Log(s, "failed to query pattern channels", <<pattern, res>>)
    /\ ScrapeReturns(s, <<"patterns", res>>)

\* the query of one pattern failed: logged, and the loop continues
PatternQueryFailed(s, pattern, res) ==
    /\ Log(s, "failed to query pattern channels", <<pattern, res>>)
    /\ UNCHANGED <<pc, err>>

\* PatternSample that writes the sample of a pattern without matches too
PatternSampleAlways(pattern, matching) ==
    <<Sample("pattern_subscriber_count", pattern, Len(matching))>>

\* if len(matching) > 0 { ch <- patternSubscriberCount }
PatternSample(pattern, matching) ==
    IF Len(matching) > 0
    THEN <<Sample("pattern_subscriber_count", pattern, Len(matching))>>
    ELSE <<>>

\* one iteration of the loop over patternSet: c.client.PubSubChannels(ctx, pattern)
ScrapePattern(s) ==
    /\ pc[s] = "patterns"
    /\ \E pattern \in patternSet[s] :
          /\ Issue(s, <<"PUBSUB CHANNELS", pattern>>)
          /\ patternSet' = [patternSet EXCEPT ![s] = @ \ {pattern}]
          /\ \E res \in QueryOutcomes(s) :
                IF res = "ok"
                THEN LET matching == Matching(redis.channels, pattern)
                     IN  /\ Emit(s, PatternSample(pattern, matching))
                         /\ UNCHANGED <<logs, pc, err>>
                ELSE /\ PatternQueryFailed(s, pattern, res)
                     /\ UNCHANGED <<out, sinkOrder>>
    /\ UNCHANGED <<cfgVars, collVars, ctxDone, up, channels,
                   prbVars, crashed, calls, inv, lastDone, before>>

\* the hash metric definitions scraper s has not read yet: the loop over
\* c.hashMetrics has made one HGETALL query per iteration
HashRemaining(s) ==
    LET done == Len(SelectSeq(queries[s], LAMBDA q : q[1] = "HGETALL"))
    IN  SubSeq(hashMetrics, done + 1, Len(hashMetrics))

\* the gauge samples of one hash: one per field whose value is a number,
\* labelled with the field, in the order the range over the reply takes
HashSamples(def, reply, order) ==
    LET one(f) == IF Atoi(reply[f]).ok
                  THEN <<Sample(def.MetricName, <<def.FieldLabel, f>>, Atoi(reply[f]).val)>>
                  ELSE <<>>
        RECURSIVE all(_)
        all(i) == IF i > Len(order) THEN <<>> ELSE one(order[i]) \o all(i + 1)
    IN  all(1)

\* HashReadFailed that returns the error instead of going on
HashReadFailedAborts(s, def, res) ==
    /\ Log(s, "failed to read hash metric", <<def.RedisKey, res>>)
    /\ ScrapeReturns(s, <<"hash_metrics", res>>)

\* the read of one hash failed: logged, and the loop continues
HashReadFailed(s, def, res) ==
    /\ Log(s, "failed to read hash metric", <<def.RedisKey, res>>)
    /\ UNCHANGED <<pc, err>>

\* one iteration of the loop over the hash metric definitions, after the
\* loop over patternSet: HGETALL and the samples of its fields
ScrapeHashMetric(s) ==
    /\ pc[s] = "patterns"
    /\ patternSet[s] = {}
    /\ HashRemaining(s) # <<>>
    /\ LET def == Head(HashRemaining(s))
       IN  /\ Issue(s, <<"HGETALL", def.RedisKey>>)
           /\ \E res \in QueryOutcomes(s) :
                 IF res = "ok"
                 THEN LET reply == redis.hashes[def.RedisKey]
                      IN  /\ \E order \in Orders(DOMAIN reply) :
                                Emit(s, HashSamples(def, reply, order))
                          /\ UNCHANGED <<logs, pc, err>>
                 ELSE /\ HashReadFailed(s, def, res)
                      /\ UNCHANGED <<out, sinkOrder>>
    /\ UNCHANGED <<cfgVars, collVars, ctxDone, up, channels, patternSet,
                   prbVars, crashed, calls, inv, lastDone, before>>

\* the loops over patternSet and over the hash metric definitions are
\* over: return nil
ScrapeDone(s) ==
    /\ pc[s] = "patterns"
    /\ patternSet[s] = {}
    /\ HashRemaining(s) = <<>>
    /\ ScrapeReturns(s, Nil)
    /\ UNCHANGED <<cfgVars, collVars, ctxDone, up, channels, patternSet, out, queries,
                   logs, prbVars, crashed, histVars>>

(***************************************************************************)
(* Collect, after scrape                                                   *)
(***************************************************************************)
\* CollectOutcome that takes a scrape cut short by its deadline for a good one
CollectOutcomeForgivesDeadline(s) ==
    /\ pc[s] = "scraped"
    /\ IF err[s] # Nil /\ err[s][2] # "context deadline exceeded"
       THEN /\ scrapeErrors' = scrapeErrors + 1
            /\ Log(s, "scrape failed", err[s])
            /\ UNCHANGED up
       ELSE /\ up' = [up EXCEPT ![s] = 1]
            /\ UNCHANGED <<scrapeErrors, logs>>
    /\ pc' = [pc EXCEPT ![s] = "publish"]
    /\ UNCHANGED <<cfgVars, mu, redisUp, ctxDone, err, channels, patternSet, out,
                   queries, prbVars, crashed, histVars>>

\* CollectOutcome that starts the error count afresh after a good scrape
CollectOutcomeResets(s) ==
    /\ pc[s] = "scraped"
    /\ IF err[s] # Nil
       THEN /\ scrapeErrors' = scrapeErrors + 1
            /\ Log(s, "scrape failed", err[s])
            /\ UNCHANGED up
       ELSE /\ up' = [up EXCEPT ![s] = 1]
            /\ scrapeErrors' = 0
            /\ UNCHANGED logs
    /\ pc' = [pc EXCEPT ![s] = "publish"]
    /\ UNCHANGED <<cfgVars, mu, redisUp, ctxDone, err, channels, patternSet, out,
                   queries, prbVars, crashed, histVars>>

\* if err != nil { c.scrapeErrors++; log } else { up = 1.0 }
CollectOutcome(s) ==
    /\ pc[s] = "scraped"
    /\ IF err[s] # Nil
       THEN /\ scrapeErrors' = scrapeErrors + 1
            /\ Log(s, "scrape failed", err[s])
            /\ UNCHANGED up
       ELSE /\ up' = [up EXCEPT ![s] = 1]
            /\ UNCHANGED <<scrapeErrors, logs>>
    /\ pc' = [pc EXCEPT ![s] = "publish"]
    /\ UNCHANGED <<cfgVars, mu, redisUp, ctxDone, err, channels, patternSet, out,
                   queries, prbVars, crashed, histVars>>

\* CollectPublish that raises the flag whatever the scrape returned
CollectPublishAlwaysUp(s) ==
    /\ pc[s] = "publish"
    /\ redisUp' = TRUE
    /\ pc' = [pc EXCEPT ![s] = "emit_up"]
    /\ UNCHANGED <<cfgVars, mu, scrapeErrors, locVars, prbVars, crashed, histVars>>

\* c.redisUp = up == 1.0
CollectPublish(s) ==
    /\ pc[s] = "publish"
    /\ redisUp' = (up[s] = 1)
    /\ pc' = [pc EXCEPT ![s] = "emit_up"]
    /\ UNCHANGED <<cfgVars, mu, scrapeErrors, locVars, prbVars, crashed, histVars>>

\* CollectEmitUp whose sample reaches the sink ahead of the samples of scrape
CollectEmitUpFirst(s) ==
    /\ pc[s] = "emit_up"
    /\ out' = [out EXCEPT ![s] = <<Sample("exporter_redis_up", <<>>, up[s])>> \o @]
    /\ sinkOrder' = IF sinkOrder # <<>> /\ sinkOrder[Len(sinkOrder)] = inv[s]
                    THEN sinkOrder
                    ELSE Append(sinkOrder, inv[s])
    /\ pc' = [pc EXCEPT ![s] = "emit_errors"]
    /\ UNCHANGED <<cfgVars, collVars, ctxDone, err, up, channels, patternSet, queries,
                   logs, prbVars, crashed, calls, inv, lastDone, before>>

\* ch <- redisUpDesc
CollectEmitUp(s) ==
    /\ pc[s] = "emit_up"
    /\ Emit(s, <<Sample("exporter_redis_up", <<>>, up[s])>>)
    /\ pc' = [pc EXCEPT ![s] = "emit_errors"]
    /\ UNCHANGED <<cfgVars, collVars, ctxDone, err, up, channels, patternSet, queries,
                   logs, prbVars, crashed, calls, inv, lastDone, before>>

\* ch <- scrapeErrorsTotal
CollectEmitErrors(s) ==
    /\ pc[s] = "emit_errors"
    /\ Emit(s, <<Sample("exporter_scrape_errors_total", <<>>, scrapeErrors)>>)
    /\ pc' = [pc EXCEPT ![s] = "emit_duration"]
    /\ UNCHANGED <<cfgVars, collVars, ctxDone, err, up, channels, patternSet, queries,
                   logs, prbVars, crashed, calls, inv, lastDone, before>>

\* ch <- scrapeDurationSeconds (the value, a time, is not modelled)
CollectEmitDuration(s) ==
    /\ pc[s] = "emit_duration"
    /\ Emit(s, <<Sample("exporter_scrape_duration_seconds", <<>>, 0)>>)
    /\ pc' = [pc EXCEPT ![s] = "unlock"]
    /\ UNCHANGED <<cfgVars, collVars, ctxDone, err, up, channels, patternSet, queries,
                   logs, prbVars, crashed, calls, inv, lastDone, before>>

\* Collect returns: the deferred cancel() and c.mu.Unlock()
CollectReturn(s) ==
    /\ pc[s] = "unlock"
    /\ MuUnlock
    /\ pc' = [pc EXCEPT ![s] = "idle"]
    /\ lastDone' = [n |-> inv[s], up |-> err[s] = Nil]
    /\ before' = [before EXCEPT ![s] = 0]
    /\ ctxDone' = [ctxDone EXCEPT ![s] = FALSE]
    /\ err' = [err EXCEPT ![s] = Nil]
    /\ up' = [up EXCEPT ![s] = 0]
    /\ channels' = [channels EXCEPT ![s] = <<>>]
    /\ patternSet' = [patternSet EXCEPT ![s] = {}]
    /\ out' = [out EXCEPT ![s] = <<>>]
    /\ queries' = [queries EXCEPT ![s] = <<>>]
    /\ logs' = [logs EXCEPT ![s] = <<>>]
    /\ UNCHANGED <<cfgVars, redisUp, scrapeErrors, ret, crashed, calls, inv, sinkOrder>>

\* channels[:c.maxChannels] panicked: the deferred cancel() and c.mu.Unlock()
\* run, nothing recovers, and the process exits
CollectPanic(s) ==
    /\ pc[s] = "panic"
    /\ mu' = [mu EXCEPT !.w = 0, !.pending = FALSE]
    /\ pc' = [t \in ScraperIds |-> "dead"]
    /\ ppc' = [p \in ProbeIds |-> "dead"]
    /\ crashed' = TRUE
    /\ UNCHANGED <<cfgVars, redisUp, scrapeErrors, locVars, ret, histVars>>

(***************************************************************************)
(* IsRedisUp                                                               *)
(***************************************************************************)
\* the /readyz handler calls IsRedisUp: c.mu.RLock()
IsRedisUpRLock(p) ==
    /\ ppc[p] = "idle"
    /\ MuRLock(p)
    /\ UNCHANGED <<cfgVars, redisUp, scrapeErrors, pc, locVars, ret, crashed, histVars>>

\* return c.redisUp: the value is read
IsRedisUpRead(p) ==
    /\ ppc[p] = "rheld"
    /\ ret' = [ret EXCEPT ![p] = <<redisUp>>]
    /\ ppc' = [ppc EXCEPT ![p] = "rdone"]
    /\ UNCHANGED <<cfgVars, collVars, pc, locVars, crashed, histVars>>

\* the deferred c.mu.RUnlock(), and the call returns
IsRedisUpReturn(p) ==
    /\ ppc[p] = "rdone"
    /\ MuRUnlock
    /\ ppc' = [ppc EXCEPT ![p] = "idle"]
    /\ ret' = [ret EXCEPT ![p] = <<>>]
    /\ UNCHANGED <<cfgVars, redisUp, scrapeErrors, pc, locVars, crashed, histVars>>

(***************************************************************************)
(* Specifications                                                          *)
(***************************************************************************)
\* the steps of a Collect call that the goroutine takes by itself
CollectStep(s) ==
    \/ CollectLock(s)
    \/ CollectLockAcquired(s)
    \/ CollectBegin(s)
    \/ ScrapePing(s)
    \/ ScrapeInfoClients(s)
    \/ ScrapeInfoMemory(s)
    \/ ScrapeChannels(s)
    \/ ScrapeNumSub(s)
    \/ ScrapeNumPat(s)
    \/ ScrapeClientList(s)
    \/ ScrapePattern(s)
    \/ ScrapeDone(s)
    \/ CollectOutcome(s)
    \/ CollectPublish(s)
    \/ CollectEmitUp(s)
    \/ CollectEmitErrors(s)
    \/ CollectEmitDuration(s)
    \/ CollectReturn(s)
    \/ CollectPanic(s)

\* the steps of an IsRedisUp call once it is blocked or holds the read lock
IsRedisUpStep(p) ==
    \/ IsRedisUpRead(p)
    \/ IsRedisUpReturn(p)

Next ==
    \/ \E s \in scrapers : CollectCall(s)
    \/ \E s \in scrapers : CollectLock(s)
    \/ \E s \in scrapers : CollectLockAcquired(s)
    \/ \E s \in scrapers : CollectBegin(s)
    \/ \E s \in scrapers : CtxTimeout(s)
    \/ \E s \in scrapers : ScrapePing(s)
    \/ \E s \in scrapers : ScrapeInfoClients(s)
    \/ \E s \in scrapers : ScrapeInfoMemory(s)
    \/ \E s \in scrapers : ScrapeChannels(s)
    \/ \E s \in scrapers : ScrapeNumSub(s)
    \/ \E s \in scrapers : ScrapeNumPat(s)
    \/ \E s \in scrapers : ScrapeClientList(s)
    \/ \E s \in scrapers : ScrapePattern(s)
    \/ \E s \in scrapers : ScrapeDone(s)
    \/ \E s \in scrapers : CollectOutcome(s)
    \/ \E s \in scrapers : CollectPublish(s)
    \/ \E s \in scrapers : CollectEmitUp(s)
    \/ \E s \in scrapers : CollectEmitErrors(s)
    \/ \E s \in scrapers : CollectEmitDuration(s)
    \/ \E s \in scrapers : CollectReturn(s)
    \/ \E s \in scrapers : CollectPanic(s)
    \/ \E p \in probes : IsRedisUpRLock(p)
    \/ \E p \in probes : IsRedisUpRead(p)
    \/ \E p \in probes : IsRedisUpReturn(p)

Spec == Init /\ [][Next]_vars

\* Next with the read of a configured hash metric, for a cap that is not
\* negative
NextHash ==
    \/ \E s \in scrapers : CollectCall(s)
    \/ \E s \in scrapers : CollectLock(s)
    \/ \E s \in scrapers : CollectLockAcquired(s)
    \/ \E s \in scrapers : CollectBegin(s)
    \/ \E s \in scrapers : CtxTimeout(s)
    \/ \E s \in scrapers : ScrapePing(s)
    \/ \E s \in scrapers : ScrapeInfoClients(s)
    \/ \E s \in scrapers : ScrapeInfoMemory(s)
    \/ \E s \in scrapers : ScrapeChannels(s)
    \/ \E s \in scrapers : ScrapeNumSub(s)
    \/ \E s \in scrapers : ScrapeNumPat(s)
    \/ \E s \in scrapers : ScrapeClientList(s)
    \/ \E s \in scrapers : ScrapePattern(s)
    \/ \E s \in scrapers : ScrapeHashMetric(s)
    \/ \E s \in scrapers : ScrapeDone(s)
    \/ \E s \in scrapers : CollectOutcome(s)
    \/ \E s \in scrapers : CollectPublish(s)
    \/ \E s \in scrapers : CollectEmitUp(s)
    \/ \E s \in scrapers : CollectEmitErrors(s)
    \/ \E s \in scrapers : CollectEmitDuration(s)
    \/ \E s \in scrapers : CollectReturn(s)
    \/ \E p \in probes : IsRedisUpRLock(p)
    \/ \E p \in probes : IsRedisUpRead(p)
    \/ \E p \in probes : IsRedisUpReturn(p)

HashSpec == InitHash /\ [][NextHash]_vars

DataSpec == InitData /\ [][Next]_vars

\* every goroutine that can take a step eventually does; neither a scrape
\* request, nor a health check, nor a timeout is ever bound to come
Fairness ==
    /\ \A s \in ScraperIds : WF_vars(s \in scrapers /\ CollectStep(s))
    /\ \A p \in ProbeIds : WF_vars(p \in probes /\ IsRedisUpStep(p))

FairSpec == InitLive /\ [][Next]_vars /\ Fairness

\* a run in which no goroutine calls the collector
NoCollector ==
    /\ maxChannels = 0
    /\ knownPatterns = <<>>
    /\ hashMetrics = <<>>
    /\ redis = BaseStore
    /\ scrapers = {}
    /\ probes = {}
    /\ requests = 0
    /\ InitState

(***************************************************************************)
(* config.go: ParseHashMetrics and the part of Load that calls it          *)
(***************************************************************************)
K_redis_key == <<"r", "e", "d", "i", "s", "_", "k", "e", "y">>
K_metric    == <<"m", "e", "t", "r", "i", "c">>
K_help      == <<"h", "e", "l", "p">>
K_label     == <<"l", "a", "b", "e", "l">>
S_DefaultHelp == <<"V", "a", "l", "u", "e", " ", "f", "r", "o", "m", " ">>
    \o <<"R", "e", "d", "i", "s", " ", "h", "a", "s", "h", " ">>

\* the inner loop over strings.Split(segment, ",")
RECURSIVE ParseHashPairs(_, _)
ParseHashPairs(pairs, fields) ==
    IF pairs = <<>> THEN fields
    ELSE LET pair == Head(pairs)
             idx  == IndexByte(pair, "=")
         IN  ParseHashPairs(Tail(pairs),
                 IF idx < 0 THEN fields
                 ELSE MapPut(fields, TrimSpace(SubSeq(pair, 1, idx)),
                             TrimSpace(SubSeq(pair, idx + 2, Len(pair)))))

MissingRequired(def) ==
    def.RedisKey = <<>> \/ def.MetricName = <<>> \/ def.FieldLabel = <<>>

WithDefaultHelp(def) ==
    IF def.Help = <<>> THEN [def EXCEPT !.Help = S_DefaultHelp \o def.RedisKey] ELSE def

\* RejectInput that hands back the definitions parsed so far with the error
RejectInputKeepsParsed(defs, segment) ==
    [defs |-> defs, err |-> <<"hash metric definition missing required field", segment>>]

\* return nil, fmt.Errorf(...)
RejectInput(defs, segment) ==
    [defs |-> <<>>, err |-> <<"hash metric definition missing required field", segment>>]

\* the loop over strings.Split(raw, ";")
RECURSIVE ParseHashSegments(_, _)
ParseHashSegments(segments, defs) ==
    IF segments = <<>> THEN [defs |-> defs, err |-> Nil]
    ELSE LET segment == TrimSpace(Head(segments))
             fields == ParseHashPairs(Split(segment, ","), EmptyMap)
             def == [RedisKey   |-> MapGet(fields, K_redis_key),
                     MetricName |-> MapGet(fields, K_metric),
                     Help       |-> MapGet(fields, K_help),
                     FieldLabel |-> MapGet(fields, K_label)]
         IN  IF segment = <<>> THEN ParseHashSegments(Tail(segments), defs)
             ELSE IF MissingRequired(def) THEN RejectInput(defs, segment)
             ELSE ParseHashSegments(Tail(segments), Append(defs, WithDefaultHelp(def)))

ParseHashMetrics(raw) ==
    IF TrimSpace(raw) = <<>> THEN [defs |-> <<>>, err |-> Nil]
    ELSE ParseHashSegments(Split(TrimSpace(raw), ";"), <<>>)

(***************************************************************************)
(* HASH_METRICS strings: definitions separated by ";", the fields of a     *)
(* definition by ",", each field key=value, with or without spaces around  *)
(* the key and the value.                                                  *)
(***************************************************************************)
Pair(k, v)   == [key |-> k, eq |-> TRUE, val |-> v, pad |-> FALSE]
Padded(k, v) == [key |-> k, eq |-> TRUE, val |-> v, pad |-> TRUE]
Bare(w)      == [key |-> w, eq |-> FALSE, val |-> <<>>, pad |-> FALSE]

V_counters == <<"a", ":", "c">>
V_sessions == <<"a", ":", "s">>
V_metric   == <<"m">>
V_label    == <<"u">>
V_help     == <<"H">>

HashTokens ==
    { Pair(K_redis_key, V_sessions), Pair(K_redis_key, <<>>),
      Pair(K_metric, V_metric),
      Pair(K_label, V_label), Padded(K_label, V_label),
      Pair(K_help, V_help), Pair(K_help, <<>>),
      Bare(<<"j">>) }

HashSegments == UNION { [1..n -> HashTokens] : n \in 0..MaxPairs }

Sg_full == << Pair(K_redis_key, V_counters), Pair(K_metric, V_metric),
              Pair(K_help, V_help), Pair(K_label, V_label) >>
Sg_nohelp   == << Pair(K_redis_key, V_sessions), Pair(K_metric, V_metric),
                  Pair(K_label, V_label) >>
Sg_nokey    == << Pair(K_metric, V_metric), Pair(K_help, V_help), Pair(K_label, V_label) >>
Sg_nometric == << Pair(K_redis_key, V_counters), Pair(K_help, V_help),
                  Pair(K_label, V_label) >>
Sg_nolabel  == << Pair(K_redis_key, V_counters), Pair(K_metric, V_metric),
                  Pair(K_help, V_help) >>
Sg_blank    == << >>
SegmentSample == {Sg_full, Sg_nohelp, Sg_nokey, Sg_nometric, Sg_nolabel, Sg_blank}

\* every string of one definition, and the strings of several sample definitions
HashMetricInputs ==
    { <<g>> : g \in HashSegments }
    \cup UNION { [1..n -> SegmentSample] : n \in 2..MaxSegments }

RenderPair(t) ==
    IF t.pad THEN <<" ">> \o t.key \o <<" ", "=", " ">> \o t.val \o <<" ">>
    ELSE RenderToken(t)
RenderSegment(g) == Join([i \in 1..Len(g) |-> RenderPair(g[i])], <<",">>)
RenderHashMetrics(input) ==
    Join([i \in 1..Len(input) |-> RenderSegment(input[i])], <<";">>)

\* a definition that lacks one of the required fields
Lacks(g) == \E k \in {K_redis_key, K_metric, K_label} : LastOf(g, k).val = <<>>

\* the definitions of a string: its segments that are not blank
Definitions(input) == SelectSeq(input, LAMBDA g : g # <<>>)

\* HASH_METRICS is set in the environment
InitLoad ==
    /\ NoCollector
    /\ \E input \in HashMetricInputs :
           /\ RenderHashMetrics(input) # <<>>
           /\ fnArg = [input |-> input, raw |-> RenderHashMetrics(input)]
    /\ fnRet = NotCalled

\* the hash metrics part of Load; fnRet is what its ParseHashMetrics call returned
Load ==
    /\ ~fnRet.called
    /\ fnArg.raw # <<>>
    /\ LET r == ParseHashMetrics(fnArg.raw)
       IN  /\ fnRet' = [called |-> TRUE, defs |-> r.defs, err |-> r.err]
           /\ hashMetrics' = IF r.err = Nil THEN r.defs ELSE hashMetrics
    /\ UNCHANGED <<maxChannels, knownPatterns, redis, scrapers, probes,
                   requests, fnArg, collVars, pc, locVars, prbVars, crashed, histVars>>

NextLoad == Load

LoadSpec == InitLoad /\ [][NextLoad]_vars

(***************************************************************************)
(* ParseClientList applied to one client listing.                          *)
(***************************************************************************)
InitParseClientList ==
    /\ NoCollector
    /\ \E listing \in ClientListings :
           fnArg = [listing |-> listing, raw |-> RenderClientList(listing)]
    /\ fnRet = NotCalled

CallParseClientList ==
    /\ ~fnRet.called
    /\ fnRet' = [called |-> TRUE, clients |-> ParseClientList(fnArg.raw)]
    /\ UNCHANGED <<maxChannels, knownPatterns, hashMetrics, redis, scrapers, probes,
                   requests, fnArg, collVars, pc, locVars, prbVars, crashed, histVars>>

NextParseClientList == CallParseClientList

ParseClientListSpec == InitParseClientList /\ [][NextParseClientList]_vars

(***************************************************************************)
(* Properties                                                              *)
(***************************************************************************)
UpName       == "exporter_redis_up"
ErrorsName   == "exporter_scrape_errors_total"
DurationName == "exporter_scrape_duration_seconds"
HealthNames  == {UpName, ErrorsName, DurationName}

\* how many samples of a metric a sequence of samples holds
Count(samples, name) == Cardinality({i \in 1..Len(samples) : samples[i][1] = name})

\* the samples of a sequence that are not of the health triple
ScrapeSamples(samples) == SelectSeq(samples, LAMBDA x : x[1] \notin HealthNames)

\* scraper s holds the write lock: it is between Lock and Unlock
InCollect(s) ==
    pc[s] \in QueryPcs \cup {"begin", "scraped", "publish", "emit_up", "emit_errors",
                             "emit_duration", "unlock", "panic"}

\* C1: every Collect call, however its scrape ends, has written exactly one
\* up, one error-count and one duration sample when it is over, and never
\* two of any of them.
C1_HealthSamplesExactlyOnce ==
    \A s \in ScraperIds :
        /\ \A n \in HealthNames : Count(out[s], n) <= 1
        /\ pc[s] \in {"unlock", "panic"} => \A n \in HealthNames : Count(out[s], n) = 1

\* C2: at most one Collect is inside its scrape at any time, and the calls
\* write to the sink one after the other: no call writes again after
\* another call has written.
C2_ScrapesSerialized ==
    /\ \A s, t \in ScraperIds : s # t => ~(InCollect(s) /\ InCollect(t))
    /\ \A i, j \in 1..Len(sinkOrder) : sinkOrder[i] = sinkOrder[j] => i = j

\* a second Collect writes its health samples while another Collect waits
\* for the lock
C2_Witness ==
    \E s, t \in ScraperIds :
        /\ pc[s] = "emit_duration"
        /\ pc[t] = "lock"
        /\ Len(sinkOrder) = 2

\* C3: the error counter never decreases; the Collect whose scrape failed
\* adds exactly one to it, the Collect whose scrape succeeded leaves it, and
\* nothing else changes it.
C3_ErrorCounterMonotonic ==
    [][ /\ scrapeErrors' >= scrapeErrors
        /\ \A s \in ScraperIds :
              pc[s] = "scraped" /\ pc'[s] = "publish"
                  => scrapeErrors' = scrapeErrors + (IF err[s] # Nil THEN 1 ELSE 0)
        /\ scrapeErrors' # scrapeErrors
              => \E s \in ScraperIds : pc[s] = "scraped" /\ pc'[s] = "publish"
      ]_vars

\* a scrape succeeds after two have failed, and the count stays
C3_Witness ==
    \E s \in ScraperIds :
        /\ pc[s] = "unlock"
        /\ err[s] = Nil
        /\ before[s] = 2
        /\ scrapeErrors = 2

\* the up, error-count and duration samples a Collect writes when its scrape
\* ended with up value u and the error counter at n
HealthTriple(u, n) ==
    <<Sample(UpName, <<>>, u), Sample(ErrorsName, <<>>, n), Sample(DurationName, <<>>, 0)>>

\* the Collect of scraper s is over but for its return, and ended as a
\* failed scrape does: up = 0, the flag down, one more error counted
EndsFailed(s) ==
    /\ up[s] = 0
    /\ ~redisUp
    /\ scrapeErrors = before[s] + 1
    /\ out[s] = ScrapeSamples(out[s]) \o HealthTriple(0, before[s] + 1)

\* ... and as a good scrape does: up = 1, the flag up, no error counted
EndsGood(s) ==
    /\ up[s] = 1
    /\ redisUp
    /\ scrapeErrors = before[s]
    /\ out[s] = ScrapeSamples(out[s]) \o HealthTriple(1, before[s])

LastQuery(s) == queries[s][Len(queries[s])]

\* C4: when Ping fails, PING is the only query of the scrape, the Collect
\* writes the up, error-count and duration samples and no other, up is 0 and
\* the error counter one more than before.
C4_PingFailureAborts ==
    \A s \in ScraperIds :
        err[s] # Nil /\ err[s][1] = "ping"
            => /\ queries[s] = << <<"PING", <<>>>> >>
               /\ ScrapeSamples(out[s]) = <<>>
               /\ pc[s] = "unlock" => EndsFailed(s)

\* a Collect whose Ping failed is about to return, after an earlier failure
C4_Witness ==
    \E s \in ScraperIds :
        /\ pc[s] = "unlock"
        /\ err[s] # Nil /\ err[s][1] = "ping"
        /\ before[s] = 1

InfoFailed(s) == err[s] # Nil /\ err[s][1] \in {"info_clients", "info_memory"}

\* C5 as claimed: when either INFO query fails the Collect writes the up,
\* error-count and duration samples and no other, up is 0 and the error
\* counter one more than before.
C5_InfoFailureLeavesNoSample ==
    \A s \in ScraperIds :
        InfoFailed(s)
            => /\ ScrapeSamples(out[s]) = <<>>
               /\ pc[s] = "unlock" => EndsFailed(s)

\* C5 as amended: the failed INFO query is the last query of the scrape, up
\* is 0 and the error counter one more than before; no sample but the health
\* triple is written when INFO clients fails, and none but the triple and
\* the connected-clients sample of the INFO clients reply when INFO memory
\* fails.
C5_InfoFailureAborts ==
    \A s \in ScraperIds :
        InfoFailed(s)
            => /\ LastQuery(s) = <<"INFO", IF err[s][1] = "info_clients"
                                           THEN K_clients ELSE K_memory>>
               /\ Len(queries[s]) = IF err[s][1] = "info_clients" THEN 2 ELSE 3
               /\ err[s][1] = "info_clients" => ScrapeSamples(out[s]) = <<>>
               /\ err[s][1] = "info_memory"
                     => \E found \in infoSection(redis.info_clients, K_clients) :
                           ScrapeSamples(out[s])
                               = InfoSamples(found, K_connected_clients,
                                             "exporter_redis_connected_clients")
               /\ pc[s] = "unlock" => EndsFailed(s)

\* INFO memory failed after the connected-clients sample was written
C5_Witness ==
    \E s \in ScraperIds :
        /\ pc[s] = "unlock"
        /\ err[s] # Nil /\ err[s][1] = "info_memory"
        /\ Len(out[s]) = 4

PatternFailureMsg == "failed to query pattern channels"
DeadlineExceeded == "context deadline exceeded"

\* the <<pattern, cause>> pairs of the pattern queries of scraper s that failed
PatternFailures(s) ==
    {logs[s][i][2] : i \in {j \in 1..Len(logs[s]) : logs[s][j][1] = PatternFailureMsg}}

\* the patterns queried by the pattern loop of scraper s so far, one entry
\* per query: the PUBSUB CHANNELS queries after CLIENT LIST
PatternQueries(s) ==
    LET isCL(i) == queries[s][i][1] = "CLIENT LIST"
        at == {i \in 1..Len(queries[s]) : isCL(i)}
    IN  IF at = {} THEN <<>>
        ELSE LET k == CHOOSE i \in at : TRUE
             IN  [i \in 1..(Len(queries[s]) - k) |-> queries[s][k + i][2]]

\* the samples of the pattern step
PatternSamples(s) == SelectSeq(out[s], LAMBDA x : x[1] = "pattern_subscriber_count")

HasPatternSample(s, p) ==
    \E i \in 1..Len(PatternSamples(s)) : PatternSamples(s)[i][2] = p

\* C6: when the query of one pattern fails, the scrape does not return an
\* error: the pattern gets no sample, and by the end of the scrape every
\* pattern of the pattern set has been queried exactly once, every pattern
\* that answered with a matching channel has its sample, up is 1 and the
\* error counter is what it was before.
C6_PatternFailureSkipped ==
    \A s \in ScraperIds :
        PatternFailures(s) # {}
            => /\ \A f \in PatternFailures(s) : ~HasPatternSample(s, f[1])
               /\ pc[s] \in {"patterns", "scraped", "publish", "emit_up", "emit_errors",
                             "emit_duration", "unlock"}
               /\ err[s] = Nil
               /\ pc[s] # "patterns"
                     => LET all == DiscoverPatterns(knownPatterns, channels[s])
                        IN  /\ Range(PatternQueries(s)) = all
                            /\ Len(PatternQueries(s)) = Cardinality(all)
                            /\ \A p \in all :
                                  HasPatternSample(s, p)
                                      <=> /\ \A f \in PatternFailures(s) : f[1] # p
                                          /\ Len(Matching(redis.channels, p)) > 0
               /\ pc[s] = "unlock" => EndsGood(s)

\* the first pattern query failed, a later one answered and got its sample
C6_Witness ==
    \E s \in ScraperIds :
        /\ pc[s] = "unlock"
        /\ Len(PatternQueries(s)) >= 2
        /\ \E f \in PatternFailures(s) : f[1] = PatternQueries(s)[1]
        /\ HasPatternSample(s, PatternQueries(s)[Len(PatternQueries(s))])

\* the scrape of s returned an error whose cause is the deadline
DeadlineFatal(s) == err[s] # Nil /\ err[s][2] = DeadlineExceeded

\* a pattern query of s failed on the deadline
DeadlineInPatterns(s) == \E f \in PatternFailures(s) : f[2] = DeadlineExceeded

\* C7 as claimed: a Collect whose scrape met the deadline at any step, the
\* pattern queries included, ends with up 0 and the error counter one more
\* than before.
C7_DeadlineAlwaysFails ==
    \A s \in ScraperIds :
        pc[s] = "unlock" /\ (DeadlineFatal(s) \/ DeadlineInPatterns(s))
            => EndsFailed(s)

\* C7 as amended: met at a step from Ping to CLIENT LIST, the deadline makes
\* the scrape return at that query, and the Collect ends with up 0 and the
\* error counter one more than before; met during the pattern queries, these are logged
\* and skipped, and the Collect ends with up 1 and the error counter
\* unchanged.
C7_DeadlineFailsBeforePatterns ==
    \A s \in ScraperIds :
        /\ DeadlineFatal(s)
              => /\ ctxDone[s]
                 /\ PatternQueries(s) = <<>>
                 /\ pc[s] = "unlock" => EndsFailed(s)
        /\ DeadlineInPatterns(s)
              => /\ ctxDone[s]
                 /\ err[s] = Nil
                 /\ \A f \in PatternFailures(s) :
                       f[2] = DeadlineExceeded => ~HasPatternSample(s, f[1])
                 /\ pc[s] = "unlock" => EndsGood(s)

\* the deadline passed during the pattern queries: the Collect ends with up 1
C7_Witness ==
    \E s \in ScraperIds :
        /\ pc[s] = "unlock"
        /\ DeadlineInPatterns(s)
        /\ up[s] = 1
        /\ before[s] = 1

Min(a, b) == IF a < b THEN a ELSE b

ChannelsTotal(s) == SelectSeq(out[s], LAMBDA x : x[1] = "channels_total")

TruncationWarnings(s) ==
    SelectSeq(logs[s], LAMBDA x : x[1] = "channel count exceeds MAX_CHANNELS, truncating")

\* C10: with a cap maxChannels >= 0 and n channels returned by the store,
\* once the channel step is done the scrape works on the first
\* min(n, maxChannels) channels in the order of the store, channels_total
\* is min(n, maxChannels), the NUMSUB query names these channels, and the
\* truncation warning is logged exactly when n > maxChannels.
C10_TruncatesToFirstMax ==
    \A s \in ScraperIds :
        maxChannels >= 0 /\ ChannelsTotal(s) # <<>>
            => LET n == Len(redis.channels)
                   m == Min(n, maxChannels)
               IN  /\ channels[s] = SubSeq(redis.channels, 1, m)
                   /\ ChannelsTotal(s) = <<Sample("channels_total", <<>>, m)>>
                   /\ (TruncationWarnings(s) # <<>>) <=> n > maxChannels
                   /\ TruncationWarnings(s) # <<>>
                         => TruncationWarnings(s)[1][2] = <<n, maxChannels>>
                   /\ \A i \in 1..Len(queries[s]) :
                         queries[s][i][1] = "PUBSUB NUMSUB" => queries[s][i][2] = channels[s]

\* three channels, a cap of two: channels_total is 2 and the warning is logged
C10_Witness ==
    \E s \in ScraperIds :
        /\ maxChannels = 2
        /\ Len(redis.channels) = 3
        /\ ChannelsTotal(s) = <<Sample("channels_total", <<>>, 2)>>
        /\ TruncationWarnings(s) # <<>>
        /\ pc[s] = "unlock"

\* probe p holds the read lock
HoldsRLock(p) == ppc[p] \in {"rheld", "rdone"}

\* C8: IsRedisUp reads c.redisUp only while no Collect is between its Lock
\* and its Unlock, and what it reads and returns is the outcome of the Collect
\* that returned last: false, with an error counter of 0, when none has
\* returned yet, and otherwise true exactly when the scrape of that Collect
\* returned no error.
C8_IsRedisUpReadsLastCompleted ==
    /\ calls = 0 => ~redisUp /\ scrapeErrors = 0
    /\ \A p \in ProbeIds :
          HoldsRLock(p)
              => /\ \A s \in ScraperIds : ~InCollect(s)
                 /\ redisUp = lastDone.up
                 /\ lastDone.n = 0 => ~redisUp /\ scrapeErrors = 0
                 /\ ppc[p] = "rdone" => ret[p] = <<lastDone.up>>

\* a health check has read true, the outcome of the second Collect, while the
\* third Collect waits for it to release the read lock
C8_Witness ==
    \E p \in ProbeIds, s \in ScraperIds :
        /\ ppc[p] = "rdone"
        /\ ret[p] = <<TRUE>>
        /\ lastDone = [n |-> 2, up |-> TRUE]
        /\ scrapeErrors = 1
        /\ pc[s] = "lockwait"

\* C9: a health check blocked in RLock is blocked by a Collect that holds or
\* is taking the lock, never by another health check; the Unlock of that
\* Collect lets it proceed; and every health check that was called returns
\* (or the process has exited).
C9_HealthReadNotBlockedForever ==
    /\ [](\A p \in ProbeIds : ppc[p] = "rwait" => mu.pending /\ mu.w \in ScraperIds)
    /\ [][\A p \in ProbeIds :
             ppc[p] = "rwait" /\ mu'.w # mu.w => ppc'[p] \in {"rheld", "dead"}]_vars
    /\ [][\A p \in ProbeIds :
             ppc[p] = "idle" /\ ppc'[p] # "idle" /\ ~mu.pending => ppc'[p] = "rheld"]_vars
    /\ \A p \in ProbeIds : (ppc[p] # "idle") ~> (ppc[p] \in {"idle", "dead"})

\* one health check holds the read lock, the other waits behind a Collect
\* that has announced itself, and a second Collect waits for the lock
C9_Witness ==
    \E p, q \in ProbeIds, s, t \in ScraperIds :
        /\ ppc[p] = "rdone"
        /\ ppc[q] = "rwait"
        /\ pc[s] = "lockwait"
        /\ pc[t] = "lock"


\* positions in out[s] of the samples named name
Positions(s, name) == {i \in 1..Len(out[s]) : out[s][i][1] = name}

NumSubQueries(s) == SelectSeq(queries[s], LAMBDA q : q[1] = "PUBSUB NUMSUB")

\* C11: orphan_channels_total is written at most once per scrape, and once
\* by every scrape that got past the channel step unless its NUMSUB query
\* failed; once it is written, NUMSUB has been asked once, for the channels kept by the
\* truncation, or not at all when none was kept; every kept channel has one
\* channel_subscriber_count sample with the count of the store, all of them
\* before the orphan sample; and the orphan sample is the number of kept
\* channels whose count is 0.
C11_OrphanCountAfterBatchedNumSub ==
    \A s \in ScraperIds :
        /\ Cardinality(Positions(s, "orphan_channels_total")) <= 1
        /\ (/\ ChannelsTotal(s) # <<>>
            /\ pc[s] # "numsub"
            /\ ~(err[s] # Nil /\ err[s][1] = "numsub"))
              => Cardinality(Positions(s, "orphan_channels_total")) = 1
        /\ Positions(s, "orphan_channels_total") = {}
              => Positions(s, "channel_subscriber_count") = {}
        /\ Positions(s, "orphan_channels_total") # {}
              => LET o == CHOOSE i \in Positions(s, "orphan_channels_total") : TRUE
                     subs == Positions(s, "channel_subscriber_count")
                 IN  /\ NumSubQueries(s)
                            = IF channels[s] = <<>> THEN <<>>
                              ELSE << <<"PUBSUB NUMSUB", channels[s]>> >>
                     /\ \A i \in subs : i < o
                     /\ Cardinality(subs) = Len(channels[s])
                     /\ \A k \in 1..Len(channels[s]) :
                           \E i \in subs :
                              /\ out[s][i][2] = channels[s][k]
                              /\ out[s][i][3] = redis.numsub[channels[s][k]]
                     /\ out[s][o][3]
                            = Cardinality({k \in 1..Len(channels[s]) :
                                              redis.numsub[channels[s][k]] = 0})

\* three channels cut to two, one of the two without subscribers
C11_Witness ==
    \E s \in ScraperIds :
        /\ pc[s] = "unlock"
        /\ Len(redis.channels) = 3
        /\ Len(channels[s]) = 2
        /\ \E i \in Positions(s, "orphan_channels_total") : out[s][i][3] = 1
        /\ \E i \in Positions(s, "channel_subscriber_count") : out[s][i][3] = 1

\* the HGETALL queries of scraper s so far
HashQueries(s) == SelectSeq(queries[s], LAMBDA q : q[1] = "HGETALL")

\* the keys of the hashes whose read failed
HashFailures(s) ==
    {logs[s][i][2][1] :
        i \in {j \in 1..Len(logs[s]) : logs[s][j][1] = "failed to read hash metric"}}

\* the fields of the samples of a hash metric
HashSampleFields(s, def) == {out[s][i][2][2] : i \in Positions(s, def.MetricName)}

\* the hash metric definitions are read one after the other, in the order
\* of the configuration, after the last pattern query
HashReadsInOrder(s) ==
    /\ Len(HashQueries(s)) <= Len(hashMetrics)
    /\ \A k \in 1..Len(HashQueries(s)) : HashQueries(s)[k][2] = hashMetrics[k].RedisKey
    /\ \A i, j \in 1..Len(queries[s]) :
          queries[s][i][1] = "HGETALL" /\ queries[s][j][1] # "HGETALL" => j < i
    /\ HashQueries(s) # <<>> => patternSet[s] = {} /\ err[s] = Nil
    /\ pc[s] \in {"scraped", "publish", "emit_up", "emit_errors", "emit_duration", "unlock"}
       /\ err[s] = Nil
          => Len(HashQueries(s)) = Len(hashMetrics)

\* C12 as claimed: a scrape that returned nil has read every hash metric
\* definition; a definition whose read failed has no sample, every other
\* has one sample per field of its hash; and the Collect ends with up 1.
C12_OneSamplePerHashField ==
    \A s \in ScraperIds :
        /\ HashReadsInOrder(s)
        /\ \A k \in 1..Len(HashQueries(s)) :
              LET def == hashMetrics[k]
                  reply == redis.hashes[def.RedisKey]
              IN  Cardinality(Positions(s, def.MetricName))
                            = IF def.RedisKey \in HashFailures(s) THEN 0
                              ELSE Cardinality(DOMAIN reply)
        /\ pc[s] = "unlock" /\ HashQueries(s) # <<>> => EndsGood(s)

\* C12 as amended: the hash metric definitions are read in order after the
\* pattern queries, each once; a definition whose read failed has no sample
\* and the later ones are still read; every other has one sample for each
\* field of its hash whose value is a number, labelled with the field and
\* carrying that number, and none for a field whose value is not a number;
\* the scrape returns nil and the Collect ends with up 1 and the error
\* counter unchanged.
C12_HashMetricsBestEffort ==
    \A s \in ScraperIds :
        /\ HashReadsInOrder(s)
        /\ \A k \in 1..Len(HashQueries(s)) :
              LET def == hashMetrics[k]
                  reply == redis.hashes[def.RedisKey]
                  numeric == {f \in DOMAIN reply : Atoi(reply[f]).ok}
              IN  IF def.RedisKey \in HashFailures(s)
                        THEN Positions(s, def.MetricName) = {}
                        ELSE /\ HashSampleFields(s, def) = numeric
                             /\ Cardinality(Positions(s, def.MetricName))
                                    = Cardinality(numeric)
                             /\ \A i \in Positions(s, def.MetricName) :
                                   /\ out[s][i][2][1] = def.FieldLabel
                                   /\ out[s][i][3] = Atoi(reply[out[s][i][2][2]]).val
        /\ pc[s] = "unlock" /\ HashQueries(s) # <<>> => EndsGood(s)

\* the read of the first hash failed, the second was read and has a sample
\* for its numeric field only, after an earlier failed scrape
C12_Witness ==
    \E s \in ScraperIds :
        /\ pc[s] = "unlock"
        /\ hashMetrics = <<HM_a, HM_c>>
        /\ HashFailures(s) = {"app:a"}
        /\ HashSampleFields(s, HM_c) = {"user-2"}
        /\ before[s] = 1


(***************************************************************************)
(* ParseClientList                                                         *)
(***************************************************************************)
Clients == IF fnRet.called THEN fnRet.clients ELSE <<>>

\* C13: ParseClientList never returns a client whose channel-subscription
\* count and pattern-subscription count are both zero, whatever the listing,
\* counts that are absent or not numbers (and so 0) included.
C13_NoClientWithoutSubscriptions ==
    fnRet.called =>
        \A i \in 1..Len(fnRet.clients) :
            ~(fnRet.clients[i].Sub = 0 /\ fnRet.clients[i].PSub = 0)

\* a listing with a client of no subscriptions (a count of 0, one that is
\* not a number, one that is absent) next to a subscribed client
C13_Witness ==
    /\ fnRet.called
    /\ fnRet.clients # <<>>
    /\ \E i \in 1..Len(fnArg.listing) :
           /\ fnArg.listing[i] # <<>>
           /\ ~Subscribed(fnArg.listing[i])
    /\ Len(fnRet.clients) < Len(fnArg.listing)

\* the returned clients, each with the line it was parsed from
Parsed ==
    LET kept == SubscribedLines(fnArg.listing)
    IN  { [client |-> Clients[i], line |-> kept[i]] :
              i \in 1..Min(Len(Clients), Len(kept)) }

\* C14 as stated: a returned client is named "unnamed" when its line has no
\* name field or an empty name, has the address "unknown" when its line has no
\* addr field, and otherwise has the name and the address its line gives.
C14_DefaultsOnlyForAbsentAddr ==
    \A p \in Parsed :
        LET name == LastOf(p.line, K_name)
            addr == LastOf(p.line, K_addr)
        IN  /\ p.client.Name = IF ~name.has \/ name.val = <<>> THEN S_unnamed ELSE name.val
            /\ p.client.Addr = IF ~addr.has THEN S_unknown ELSE addr.val

\* C14: a returned client is named "unnamed" when its line has no name field
\* or an empty name, has the address "unknown" when its line has no addr field
\* or an empty address, and otherwise has the name and the address its line
\* gives.
C14_NameAndAddrDefaults ==
    \A p \in Parsed :
        LET name == LastOf(p.line, K_name)
            addr == LastOf(p.line, K_addr)
        IN  /\ p.client.Name = IF ~name.has \/ name.val = <<>> THEN S_unnamed ELSE name.val
            /\ p.client.Addr = IF ~addr.has \/ addr.val = <<>> THEN S_unknown ELSE addr.val

\* a client parsed from a line with an empty address and no name
C14_Witness ==
    \E p \in Parsed :
        /\ ~LastOf(p.line, K_name).has
        /\ LastOf(p.line, K_addr) = [has |-> TRUE, val |-> <<>>]
        /\ p.client.Name = S_unnamed
        /\ p.client.Addr = S_unknown

HasEq(v) == \E i \in 1..Len(v) : v[i] = "="

\* C15: a token is cut at its first '=' only: the key is the text before it
\* and the value everything after it, further '=' included.  A name or an
\* address with '=' in it is returned whole, and a count with '=' in it is
\* not a number: it counts 0 and does not make its line a subscriber.
C15_SplitOnFirstEqOnly ==
    fnRet.called =>
        /\ \A p \in Parsed :
               LET name == LastOf(p.line, K_name)
                   addr == LastOf(p.line, K_addr)
                   sub  == LastOf(p.line, K_sub)
               IN  /\ HasEq(name.val) => p.client.Name = name.val
                   /\ HasEq(addr.val) => p.client.Addr = addr.val
                   /\ HasEq(sub.val) => p.client.Sub = 0
        /\ (\A i \in 1..Len(fnArg.listing) :
                /\ HasEq(LastOf(fnArg.listing[i], K_sub).val)
                /\ ~LastOf(fnArg.listing[i], K_psub).has)
            => fnRet.clients = <<>>

\* the client of a line that says name=app=v2
C15_Witness ==
    \E p \in Parsed :
        /\ \E i \in 1..Len(p.line) : p.line[i] = Field(K_name, V_app)
        /\ LastOf(p.line, K_name).val = V_app
        /\ p.client.Name = V_app

\* the client a subscribed line describes
ClientOf(line) ==
    LET name == LastOf(line, K_name).val
        addr == LastOf(line, K_addr).val
    IN  [Addr |-> IF addr = <<>> THEN S_unknown ELSE addr,
         Name |-> IF name = <<>> THEN S_unnamed ELSE name,
         Sub  |-> CountOf(line, K_sub),
         PSub |-> CountOf(line, K_psub)]

\* C16: ParseClientList returns exactly one client for each line with a
\* nonzero sub or psub count, in the order of the lines; blank lines, tokens
\* without '=' and lines of such tokens only are passed over, and the tokens
\* and lines after them are parsed all the same.
C16_OneClientPerSubscribedLineInOrder ==
    fnRet.called =>
        LET kept == SubscribedLines(fnArg.listing)
        IN  fnRet.clients = [i \in 1..Len(kept) |-> ClientOf(kept[i])]

\* two different subscribed lines with a blank line or a line of bare words
\* between them
C16_Witness ==
    /\ fnRet.called
    /\ Len(fnArg.listing) = 3
    /\ fnArg.listing[2] \in {L_junk, L_blank}
    /\ Subscribed(fnArg.listing[1])
    /\ Subscribed(fnArg.listing[3])
    /\ ClientOf(fnArg.listing[1]) # ClientOf(fnArg.listing[3])
    /\ Len(fnRet.clients) = 2

(***************************************************************************)
(* Pattern discovery                                                       *)
(***************************************************************************)
\* the pattern each channel name of the stores stands under: its text before
\* the first "." and ".*", none for a name without "."
PrefixOf ==
    (Ch_ax :> {Pat_a}) @@ (Ch_ay :> {Pat_a}) @@ (Ch_bx :> {Pat_b}) @@ (Ch_c :> {})

\* the patterns a scrape with these channels has to probe
PatternsToProbe(s) ==
    Range(knownPatterns) \cup UNION {PrefixOf[channels[s][i]] : i \in 1..Len(channels[s])}

\* the scrape of s returned nil
ScrapeSucceeded(s) ==
    /\ pc[s] \in {"scraped", "publish", "emit_up", "emit_errors", "emit_duration", "unlock"}
    /\ err[s] = Nil

\* C17: the patterns a scrape probes are patterns of the configured list or
\* prefix patterns (text before the first "." and ".*") of the channels of the
\* scrape, none is probed twice, and a scrape that returns without error has
\* probed exactly the union of the two, a pattern that is configured twice or
\* both configured and discovered once; a channel without "." adds nothing.
C17_ProbesDeduplicatedUnionOnce ==
    \A s \in ScraperIds :
        LET probed == PatternQueries(s)
        IN  /\ \A i, j \in 1..Len(probed) : probed[i] = probed[j] => i = j
            /\ Range(probed) \subseteq PatternsToProbe(s)
            /\ ScrapeSucceeded(s) => Range(probed) = PatternsToProbe(s)

\* a finished scrape over two channels of one prefix, one of them with two
\* dots, one channel of another prefix, and one configured pattern
C17_Witness ==
    \E s \in ScraperIds :
        /\ pc[s] = "unlock"
        /\ err[s] = Nil
        /\ channels[s] = <<Ch_ax, Ch_ay, Ch_bx>>
        /\ knownPatterns = <<Pat_z>>
        /\ Len(PatternQueries(s)) = 3
        /\ Range(PatternQueries(s)) = {Pat_a, Pat_b, Pat_z}

(***************************************************************************)
(* ParseHashMetrics and Load                                               *)
(***************************************************************************)
\* C18: when a definition of the string lacks redis_key, metric or label,
\* ParseHashMetrics returns an error and no definition, valid definitions in
\* the same string notwithstanding, and Load leaves the configuration
\* without hash metric definitions.
C18_InvalidDefinitionRejectsAll ==
    (/\ fnRet.called
     /\ \E i \in 1..Len(fnArg.input) : fnArg.input[i] # <<>> /\ Lacks(fnArg.input[i]))
        => /\ fnRet.err # Nil
           /\ fnRet.defs = <<>>
           /\ hashMetrics = <<>>

\* a string whose first definition is valid and whose second is not
C18_Witness ==
    /\ fnRet.called
    /\ Len(fnArg.input) >= 2
    /\ fnArg.input[1] = Sg_full
    /\ Lacks(fnArg.input[2]) /\ fnArg.input[2] # <<>>
    /\ fnRet.err # Nil
    /\ fnRet.defs = <<>>
    /\ hashMetrics = <<>>

\* C19: a valid definition without help, or with an empty one, gets the help
\* text "Value from hash " followed by its redis key; the string of a
\* definition with help and a definition of a:s without parses to two
\* definitions, the help of the second being "Value from hash a:s".
C19_DefaultHelpValueFromHash ==
    (fnRet.called /\ fnRet.err = Nil) =>
        LET given == Definitions(fnArg.input)
            S_ValueFromHash ==
                <<"V", "a", "l", "u", "e", " ", "f", "r", "o", "m", " ", "h", "a", "s", "h", " ">>
        IN  /\ Len(fnRet.defs) = Len(given)
            /\ \A i \in 1..Len(given) :
                   LastOf(given[i], K_help).val = <<>>
                       => fnRet.defs[i].Help
                              = S_ValueFromHash \o LastOf(given[i], K_redis_key).val
            /\ fnArg.input = <<Sg_full, Sg_nohelp>>
                   => fnRet.defs[2].Help = S_ValueFromHash \o V_sessions

(***************************************************************************)
(* The queries of one scrape                                               *)
(***************************************************************************)
\* the place of a query among the steps of scrape that come before the
\* pattern loop, and the name of the step in the error it returns
StepOf(q) ==
    CASE q[1] = "PING" -> 1
      [] q[1] = "INFO" /\ q[2] = K_clients -> 2
      [] q[1] = "INFO" /\ q[2] = K_memory -> 3
      [] q[1] = "PUBSUB CHANNELS" -> 4
      [] q[1] = "PUBSUB NUMSUB" -> 5
      [] q[1] = "PUBSUB NUMPAT" -> 6
      [] q[1] = "CLIENT LIST" -> 7
      [] OTHER -> 0

StepNames ==
    <<"ping", "info_clients", "info_memory", "channels", "numsub", "numpat", "client_list">>

\* the queries of s up to the client listing
StepQueries(s) ==
    SubSeq(queries[s], 1, Len(queries[s]) - Len(PatternQueries(s)))

QueriesInOrder(s) ==
    LET fixed == StepQueries(s)
        probed == PatternQueries(s)
    IN  /\ fixed # <<>> => StepOf(fixed[1]) = 1
        /\ \A i \in 1..(Len(fixed) - 1) :
               \/ StepOf(fixed[i + 1]) = StepOf(fixed[i]) + 1
               \/ StepOf(fixed[i]) = 4 /\ StepOf(fixed[i + 1]) = 6 /\ channels[s] = <<>>
        /\ \A i \in 1..Len(fixed) : StepOf(fixed[i]) = 5 => fixed[i][2] = channels[s]
        /\ probed # <<>> => StepOf(fixed[Len(fixed)]) = 7
        /\ \A i \in 1..Len(probed) :
               queries[s][Len(fixed) + i][1] = "PUBSUB CHANNELS"
        /\ \A i, j \in 1..Len(probed) : probed[i] = probed[j] => i = j

NoQueryAfterFatal(s) ==
    err[s] # Nil
        => /\ queries[s] # <<>>
           /\ PatternQueries(s) = <<>>
           /\ StepOf(LastQuery(s)) \in 1..7
           /\ err[s][1] = StepNames[StepOf(LastQuery(s))]

\* C20: the queries of a scrape come in the order PING, INFO clients, INFO
\* memory, PUBSUB CHANNELS *, PUBSUB NUMSUB (for the kept channels; left out
\* when there is none), PUBSUB NUMPAT, CLIENT LIST, then one PUBSUB CHANNELS
\* query per pattern; no step is queried twice and no pattern is probed twice;
\* once a step has failed fatally its query stays the last of the scrape; and
\* a step of the run issues at most one query.
C20_QueriesSequentialOnceInOrder ==
    /\ [](\A s \in ScraperIds : QueriesInOrder(s) /\ NoQueryAfterFatal(s))
    /\ [][\A s \in ScraperIds :
              \/ queries'[s] = queries[s]
              \/ queries'[s] = <<>>
              \/ /\ err[s] = Nil
                 /\ Len(queries'[s]) = Len(queries[s]) + 1
                 /\ SubSeq(queries'[s], 1, Len(queries[s])) = queries[s]]_vars

\* a scrape that made the seven queries and probed two patterns
C20_Witness ==
    \E s \in ScraperIds :
        /\ pc[s] = "unlock"
        /\ err[s] = Nil
        /\ Len(StepQueries(s)) = 7
        /\ Len(PatternQueries(s)) >= 2

(***************************************************************************)
(* Progress of Collect                                                     *)
(***************************************************************************)
\* a step that leaves the Collect of s as it is
Undisturbed(s) ==
    /\ pc'[s] = pc[s]
    /\ ctxDone'[s] = ctxDone[s]
    /\ err'[s] = err[s]
    /\ out'[s] = out[s]
    /\ queries'[s] = queries[s]

\* C21: every Collect that was called returns, having released the lock; a
\* Collect that waits for the lock behind another one gets to its own scrape;
\* and a step of another Collect never changes the position, the context,
\* the error, the samples or the queries of the Collect that is in progress.
C21_CollectCompletesAndUnblocks ==
    /\ \A s \in ScraperIds : (pc[s] # "idle") ~> (pc[s] = "idle" /\ mu.w # s)
    /\ \A s \in ScraperIds : (pc[s] = "lockwait") ~> (pc[s] = "ping")
    /\ [][\A s, t \in ScraperIds :
              (s # t /\ InCollect(s) /\ pc'[t] # pc[t] /\ ~crashed') => Undisturbed(s)]_vars

\* C22: IsRedisUp does not block during a scrape: a health check that is
\* issued while a Collect is between its Lock and its Unlock gets the read
\* lock at once, and so can return before that Collect has (stated for the
\* caps that cannot make the process exit).
C22_IsRedisUpDoesNotBlockDuringScrape ==
    [][\A p \in ProbeIds :
          (/\ maxChannels >= 0
           /\ ppc[p] = "idle"
           /\ ppc'[p] # "idle"
           /\ ~crashed'
           /\ \E s \in ScraperIds : InCollect(s))
              => ppc'[p] = "rheld"]_vars

(***************************************************************************)
(* Pattern samples                                                         *)
(***************************************************************************)
\* the channel names of the stores each pattern of the runs matches
MatchedBy(pattern) ==
    CASE pattern = Pat_a -> {Ch_ax, Ch_ay}
      [] pattern = Pat_b -> {Ch_bx}
      [] pattern = Pat_all -> ChannelNames
      [] OTHER -> {}

\* the number of active channels of the store a pattern matches
MatchCount(pattern) ==
    Cardinality({i \in 1..Len(redis.channels) : redis.channels[i] \in MatchedBy(pattern)})

\* C23: a pattern sample belongs to a probed pattern whose matching channels
\* number more than zero, and its value is that number; no pattern has two
\* samples; and when the scrape has returned, every probed pattern whose
\* query answered has its sample exactly when it matches a channel, so a
\* pattern without matching channels has none.
C23_PatternSampleOnlyWhenMatching ==
    \A s \in ScraperIds :
        LET samples == PatternSamples(s)
            probed == PatternQueries(s)
        IN  /\ \A i \in 1..Len(samples) :
                   /\ samples[i][2] \in Range(probed)
                   /\ samples[i][3] > 0
                   /\ samples[i][3] = MatchCount(samples[i][2])
            /\ \A i, j \in 1..Len(samples) : samples[i][2] = samples[j][2] => i = j
            /\ ScrapeSucceeded(s)
                   => \A p \in Range(probed) :
                          (\A f \in PatternFailures(s) : f[1] # p)
                              => (HasPatternSample(s, p) <=> MatchCount(p) > 0)

\* a finished scrape that probed a pattern matching two channels, which has
\* the sample 2, and a pattern matching none, which has no sample
C23_Witness ==
    \E s \in ScraperIds :
        /\ pc[s] = "unlock"
        /\ PatternFailures(s) = {}
        /\ {Pat_a, Pat_z} \subseteq Range(PatternQueries(s))
        /\ \E i \in 1..Len(PatternSamples(s)) :
               PatternSamples(s)[i] = Sample("pattern_subscriber_count", Pat_a, 2)
        /\ ~HasPatternSample(s, Pat_z)

(***************************************************************************)
(* INFO sections                                                           *)
(***************************************************************************)
\* the section of reply m a lookup has to find: the one named exactly, else
\* the one named with a capital, else none (a sequence of none or one)
SectionWanted(m, exact, capital) ==
    IF exact \in DOMAIN m THEN <<m[exact]>>
    ELSE IF capital \in DOMAIN m THEN <<m[capital]>>
    ELSE <<>>

\* the samples the INFO step has to write for reply m
InfoWanted(m, exact, capital, field, metric) ==
    LET sec == SectionWanted(m, exact, capital)
    IN  IF sec # <<>> /\ field \in DOMAIN sec[1]
        THEN <<Sample(metric, <<>>, parseFloat(sec[1][field]))>>
        ELSE <<>>

SamplesNamed(s, metric) == SelectSeq(out[s], LAMBDA x : x[1] = metric)

\* the n-th query of the scrape of s was answered
Answered(s, n, step) ==
    /\ Len(queries[s]) >= n
    /\ ~(err[s] # Nil /\ err[s][1] = step)

\* C24: once an INFO query has answered, the sample of its step is the value
\* of the wanted field in the section named exactly, or, only when there is
\* no such section, in the section of the same name in another case; there
\* is no sample when the section is absent or lacks the field; and in each
\* case the scrape goes on to its next step without an error.
C24_InfoSectionExactThenFallback ==
    \A s \in ScraperIds :
        /\ Answered(s, 2, "info_clients")
               => /\ SamplesNamed(s, "exporter_redis_connected_clients")
                        = InfoWanted(redis.info_clients, K_clients, K_Clients,
                                     K_connected_clients, "exporter_redis_connected_clients")
                  /\ Len(queries[s]) = 2 => pc[s] = "info_memory" /\ err[s] = Nil
        /\ Answered(s, 3, "info_memory")
               => /\ SamplesNamed(s, "exporter_redis_used_memory_bytes")
                        = InfoWanted(redis.info_memory, K_memory, K_Memory,
                                     K_used_memory, "exporter_redis_used_memory_bytes")
                  /\ Len(queries[s]) = 3 => pc[s] = "channels" /\ err[s] = Nil

\* a finished good scrape of a store whose INFO clients reply has the section
\* under both spellings: the sample is the value of the exact one
C24_Witness ==
    \E s \in ScraperIds :
        /\ pc[s] = "unlock"
        /\ err[s] = Nil
        /\ {K_clients, K_Clients} \subseteq DOMAIN redis.info_clients
        /\ redis.info_clients[K_clients] # redis.info_clients[K_Clients]
        /\ SamplesNamed(s, "exporter_redis_connected_clients")
               = <<Sample("exporter_redis_connected_clients", <<>>, 1)>>

(***************************************************************************)
(* Fatal failures from the channel step on                                 *)
(***************************************************************************)
\* the step of scrape that writes the samples of a metric
SampleStep(name) ==
    CASE name = "exporter_redis_connected_clients" -> 2
      [] name = "exporter_redis_used_memory_bytes" -> 3
      [] name = "channels_total" -> 4
      [] name \in {"channel_subscriber_count", "orphan_channels_total"} -> 5
      [] name = "patterns_total" -> 6
      [] name \in {"clients_total", "client_channel_subscriptions",
                   "client_pattern_subscriptions"} -> 7
      [] OTHER -> 8

\* the scrape of s returned the error of step k
FailedAt(s, k) == err[s] # Nil /\ err[s][1] = StepNames[k]

\* C25: when the channel enumeration, the NUMSUB query, the NUMPAT query or
\* the client listing fails, its query is the last of the scrape, the sink
\* holds no sample of that step or of a later one, it holds the samples the
\* earlier steps wrote, and the Collect ends with up 0, the flag down and
\* the error counter one more than before.
C25_LaterFatalFailureAborts ==
    \A s \in ScraperIds : \A k \in 4..7 :
        FailedAt(s, k)
            => /\ StepOf(LastQuery(s)) = k
               /\ \A i \in 1..Len(ScrapeSamples(out[s])) :
                      SampleStep(ScrapeSamples(out[s])[i][1]) < k
               /\ SamplesNamed(s, "exporter_redis_connected_clients")
                     = InfoWanted(redis.info_clients, K_clients, K_Clients,
                                  K_connected_clients, "exporter_redis_connected_clients")
               /\ SamplesNamed(s, "exporter_redis_used_memory_bytes")
                     = InfoWanted(redis.info_memory, K_memory, K_Memory,
                                  K_used_memory, "exporter_redis_used_memory_bytes")
               /\ k > 4 => SamplesNamed(s, "channels_total")
                               = <<Sample("channels_total", <<>>, Len(channels[s]))>>
               /\ k > 5 => /\ Len(SamplesNamed(s, "orphan_channels_total")) = 1
                           /\ Len(SamplesNamed(s, "channel_subscriber_count"))
                                 = Len(channels[s])
               /\ k > 6 => SamplesNamed(s, "patterns_total")
                               = <<Sample("patterns_total", <<>>, redis.numpat)>>
               /\ pc[s] \in {"scraped", "publish", "emit_up", "emit_errors",
                              "emit_duration", "unlock"}
               /\ pc[s] = "unlock" => EndsFailed(s)

\* a Collect whose client listing failed, with the channel samples in the sink
C25_Witness ==
    \E s \in ScraperIds :
        /\ FailedAt(s, 7)
        /\ pc[s] = "unlock"
        /\ Len(SamplesNamed(s, "channel_subscriber_count")) = 2
        /\ SamplesNamed(s, "clients_total") = <<>>
        /\ EndsFailed(s)

(***************************************************************************)
(* The health flag and the samples of a Collect                            *)
(***************************************************************************)
\* C26: when a Collect has written its samples and is about to return, it
\* has written one up sample, 0 or 1, and one error-count sample; the flag
\* c.redisUp is true exactly when the up sample is 1, exactly when the error
\* counter is what the Collect found, and false exactly when the counter is
\* one more; the error-count sample is the counter after that; and the flag
\* changes only where a Collect sets it, so it keeps that value until the next
\* Collect sets it.
C26_FlagAgreesWithSamples ==
    /\ [](\A s \in ScraperIds :
             pc[s] = "unlock"
                 => LET upS == SamplesNamed(s, UpName)
                        errS == SamplesNamed(s, ErrorsName)
                    IN  /\ Len(upS) = 1
                        /\ Len(errS) = 1
                        /\ upS[1][3] \in {0, 1}
                        /\ redisUp <=> upS[1][3] = 1
                        /\ redisUp <=> scrapeErrors = before[s]
                        /\ ~redisUp <=> scrapeErrors = before[s] + 1
                        /\ errS[1][3] = scrapeErrors)
    /\ [][redisUp' # redisUp => \E s \in ScraperIds : pc[s] = "publish"]_vars
    /\ [](\A p \in ProbeIds : ppc[p] = "rdone" => ret[p] = <<redisUp>>)

\* a failed Collect about to return after a good one: the flag is down again
C26_Witness ==
    \E s \in ScraperIds :
        /\ pc[s] = "unlock"
        /\ lastDone = [n |-> 1, up |-> TRUE]
        /\ ~redisUp
        /\ SamplesNamed(s, UpName) = <<Sample(UpName, <<>>, 0)>>
        /\ SamplesNamed(s, ErrorsName) = <<Sample(ErrorsName, <<>>, 1)>>

\* the names of the samples of s, in the order they were written
NamesWritten(s) == [i \in 1..Len(out[s]) |-> out[s][i][1]]

\* C27: while scrape runs, and until Collect has set the flag, the sink holds
\* no up, error-count or duration sample of the call; the three are written
\* after every sample of scrape, the up sample first, then the error count,
\* then the duration; and when the Collect is about to return they are the
\* last three samples of the call.
C27_HealthSamplesLastInOrder ==
    \A s \in ScraperIds :
        LET names == NamesWritten(s)
            n == Len(names)
            health == SelectSeq(names, LAMBDA x : x \in HealthNames)
        IN  /\ pc[s] \in QueryPcs \cup {"begin", "scraped", "publish", "emit_up", "panic"}
                   => health = <<>>
            /\ \A i, j \in 1..n : (i < j /\ names[i] \in HealthNames)
                                       => names[j] \in HealthNames
            /\ health = SubSeq(<<UpName, ErrorsName, DurationName>>, 1, Len(health))
            /\ pc[s] = "unlock"
                   => /\ n >= 3
                      /\ SubSeq(names, n - 2, n) = <<UpName, ErrorsName, DurationName>>

\* a good Collect about to return, with samples of scrape before the three
C27_Witness ==
    \E s \in ScraperIds :
        /\ pc[s] = "unlock"
        /\ err[s] = Nil
        /\ Len(out[s]) > 6
        /\ out[s][Len(out[s]) - 2] = Sample(UpName, <<>>, 1)
        /\ NamesWritten(s)[Len(out[s]) - 3] \notin HealthNames

\* the channels of the store's reply that the cap keeps, and those it drops
KeptChannels == {redis.channels[i] : i \in {j \in 1..Len(redis.channels) : j <= maxChannels}}

DroppedChannels == {redis.channels[i] : i \in {j \in 1..Len(redis.channels) : j > maxChannels}}

\* the patterns of the pattern set of s (those still to probe and those
\* probed) that are not configured
Discovered(s) == (patternSet[s] \cup Range(PatternQueries(s))) \ Range(knownPatterns)

\* C28: the patterns a scrape discovers, and the patterns it probes beyond
\* the configured ones, are prefix patterns of channels kept by the cap; a
\* dropped channel whose prefix no kept channel shares adds no pattern; and a
\* scrape discovers at most maxChannels patterns (none with a cap below 1).
C28_DiscoveryOnlyFromKeptChannels ==
    \A s \in ScraperIds :
        LET fromKept == UNION {PrefixOf[c] : c \in KeptChannels}
        IN  /\ Discovered(s) \subseteq fromKept
            /\ \A c \in DroppedChannels :
                   \A pattern \in PrefixOf[c] \ (fromKept \cup Range(knownPatterns)) :
                       /\ pattern \notin patternSet[s]
                       /\ pattern \notin Range(PatternQueries(s))
            /\ Cardinality(Discovered(s)) <= (IF maxChannels < 0 THEN 0 ELSE maxChannels)
            /\ ScrapeSucceeded(s) => Discovered(s) = fromKept \ Range(knownPatterns)

\* a finished scrape whose cap of 2 dropped the only channel with prefix b
C28_Witness ==
    \E s \in ScraperIds :
        /\ pc[s] = "unlock"
        /\ err[s] = Nil
        /\ maxChannels = 2
        /\ redis.channels = <<Ch_ax, Ch_ay, Ch_bx>>
        /\ channels[s] = <<Ch_ax, Ch_ay>>
        /\ Discovered(s) = {Pat_a}
        /\ Pat_b \notin Range(PatternQueries(s))

\* C29: whatever the value of maxChannels and the channel list of the store,
\* the high cardinality guard does not panic: no Collect is ever at the panic,
\* the process never exits because of it, and a Collect whose PUBSUB CHANNELS
\* query succeeded goes on with the channels the cap keeps.
C29_TruncationNeverCrashes ==
    /\ ~crashed
    /\ \A s \in ScraperIds :
           /\ pc[s] \notin {"panic", "dead"}
           /\ pc[s] = "numsub" => Range(channels[s]) = KeptChannels
=============================================================================
